---- MODULE Spec2Model ----
(***************************************************************************)
(* The AI-feature request pipeline of the blogging platform:               *)
(*   backend/services/aiService.js  (refusal classifier, completion        *)
(*                                   invoker with fallback, operations)    *)
(*   backend/routes/blogs.js        (the /ai routes and handleAIError)     *)
(* Texts are TLA+ strings; a character is a string of length one.          *)
(***************************************************************************)
EXTENDS FiniteSets, Integers, Sequences, TLC

VARIABLES
  tasks,   \* slot -> activation of a service operation and of its makeCompletion
  req,     \* the HTTP request being handled, or NoReq
  resp,    \* the HTTP response sent for req, or NoResp
  apiKey,  \* whether process.env.GROQ_API_KEY is set
  cls,     \* the classifier under test: its input text and its verdict
  post,    \* the body of the POST /blogs being handled, or NoPost
  blogs,   \* the rows of the blogs table, in the order they were created
  call,    \* the arguments of an operation called directly, or NoCall
  created, \* the objects handed to Blog.create, in the order of the calls
  edit,    \* the PUT or DELETE /blogs/:id if it was the last request handled, or NoEdit
  list,    \* the last GET /blogs handled and its pagination, or NoList
  auth     \* the client's auth store, its localStorage token and its fetchUser

vars == <<tasks, req, resp, apiKey, cls, post, blogs, call, created, edit, list, auth>>

(***************************************************************************)
(* Bounds of the model                                                     *)
(***************************************************************************)
\* the classifier's inputs put a phrase at offsets up to this far past the window
MaxOver == 3
\* longest tail appended after the phrase in a classifier input
MaxTail == 1
\* largest maxTags / count a request carries
MaxCount == 3

(***************************************************************************)
(* Strings                                                                 *)
(***************************************************************************)
Min(a, b) == IF a < b THEN a ELSE b
Max(a, b) == IF a > b THEN a ELSE b

CharAt(s, i) == SubSeq(s, i, i)

\* String.prototype.substring(0, n)
Substring0(s, n) == SubSeq(s, 1, Min(Len(s), n))

UpperLetters == "ABCDEFGHIJKLMNOPQRSTUVWXYZ"
LowerLetters == "abcdefghijklmnopqrstuvwxyz"

\* one character of String.prototype.toLowerCase
LowerChar(c) ==
  IF \E k \in 1..26 : CharAt(UpperLetters, k) = c
  THEN CharAt(LowerLetters, CHOOSE k \in 1..26 : CharAt(UpperLetters, k) = c)
  ELSE c

UpperChar(c) ==
  IF \E k \in 1..26 : CharAt(LowerLetters, k) = c
  THEN CharAt(UpperLetters, CHOOSE k \in 1..26 : CharAt(LowerLetters, k) = c)
  ELSE c

\* String.prototype.toLowerCase, character by character (by halves, to keep
\* the evaluation shallow)
RECURSIVE ToLowerCase(_)
ToLowerCase(s) ==
  IF Len(s) = 0 THEN ""
  ELSE IF Len(s) = 1 THEN LowerChar(s)
  ELSE LET h == Len(s) \div 2
       IN ToLowerCase(SubSeq(s, 1, h)) \o ToLowerCase(SubSeq(s, h + 1, Len(s)))

RECURSIVE ToUpperCase(_)
ToUpperCase(s) ==
  IF Len(s) = 0 THEN ""
  ELSE IF Len(s) = 1 THEN UpperChar(s)
  ELSE LET h == Len(s) \div 2
       IN ToUpperCase(SubSeq(s, 1, h)) \o ToUpperCase(SubSeq(s, h + 1, Len(s)))

\* the occurrences of p in s: the positions where a match of the literal p starts
MatchesAt(s, p, i) == i >= 1 /\ i + Len(p) - 1 <= Len(s) /\ SubSeq(s, i, i + Len(p) - 1) = p
Includes(s, p) == \E i \in 1..(Len(s) - Len(p) + 1) : MatchesAt(s, p, i)

\* the characters a regular expression's "." does not match
LineTerminators == {"\n", "\r"}
\* the characters String.prototype.trim removes, and JSON's insignificant whitespace
WhiteSpace == {" ", "\t", "\n", "\r"}

\* String.prototype.repeat
RECURSIVE Repeat(_, _)
Repeat(c, n) ==
  IF n <= 0 THEN ""
  ELSE LET h == Repeat(c, n \div 2)
       IN IF n % 2 = 1 THEN h \o h \o c ELSE h \o h

(***************************************************************************)
(* aiService.js: model configuration                                       *)
(***************************************************************************)
MODELS == [FAST     |-> "llama-3.1-8b-instant",
           BALANCED |-> "llama-3.3-70b-versatile",
           MIXTRAL  |-> "mixtral-8x7b-32768"]
ModelNames == {MODELS.FAST, MODELS.BALANCED, MODELS.MIXTRAL}

FALLBACK_MODEL == "llama-3.1-8b-instant"

TEMPERATURE_X10 == 7      \* temperature: 0.7, in tenths
MAX_TOKENS == 1024

(***************************************************************************)
(* aiService.js: refusal classifier                                        *)
(***************************************************************************)
REFUSAL_MIN_LENGTH == 10
REFUSAL_WINDOW == 200

\* a pattern list that lost its last entry
RefusalLiterals_NoExplicit ==
  { "i cannot", "i can't", "i'm unable", "i am unable",
    "i will not", "i won't",
    "inappropriate", "offensive", "harmful",
    "against my guidelines",
    "as an ai", "as a language model",
    "i'm not able to", "i am not able to",
    "cannot assist with", "can't help with" }

\* the literal alternatives of REFUSAL_PATTERNS (all but violates.*policy)
RefusalLiterals ==
  { "i cannot", "i can't", "i'm unable", "i am unable",
    "i will not", "i won't",
    "inappropriate", "offensive", "harmful",
    "against my guidelines",
    "as an ai", "as a language model",
    "i'm not able to", "i am not able to",
    "cannot assist with", "can't help with",
    "explicit", "adult content", "nsfw" }

\* /violates.*policy/ : "violates", then characters other than line
\* terminators, then "policy"
MatchesViolatesPolicy(s) ==
  \E i \in 1..Len(s) :
     /\ MatchesAt(s, "violates", i)
     /\ \E j \in (i + 8)..Len(s) :
          /\ MatchesAt(s, "policy", j)
          /\ \A k \in (i + 8)..(j - 1) : CharAt(s, k) \notin LineTerminators

\* REFUSAL_PATTERNS.some(pattern => pattern.test(checkText)); every pattern
\* carries the i flag, so letters match in either case
REFUSAL_PATTERNS(checkText) ==
  LET folded == ToLowerCase(checkText) IN
  \/ \E p \in RefusalLiterals : Includes(folded, p)
  \/ MatchesViolatesPolicy(folded)

\* a classifier that scans the whole response
isContentRefusal_WholeText(response) ==
  IF Len(response) = 0 \/ Len(response) < REFUSAL_MIN_LENGTH
  THEN FALSE
  ELSE REFUSAL_PATTERNS(ToLowerCase(response))

isContentRefusal(response) ==
  IF Len(response) = 0 \/ Len(response) < REFUSAL_MIN_LENGTH
  THEN FALSE
  ELSE REFUSAL_PATTERNS(ToLowerCase(Substring0(response, REFUSAL_WINDOW)))

(***************************************************************************)
(* The provider: what one groq.chat.completions.create call can settle to  *)
(***************************************************************************)
\* the promise resolves with a completion carrying this content
Completion(text) == [kind |-> "completion", content |-> text, message |-> "", code |-> ""]
\* the promise resolves with an empty choices list (choices[0] is undefined)
EmptyChoices == [kind |-> "emptychoices", content |-> "", message |-> "", code |-> ""]
\* the promise resolves with a body that has no choices (reading [0] throws a TypeError)
NoChoices == [kind |-> "nochoices", content |-> "",
              message |-> "Cannot read properties of undefined", code |-> ""]
\* the promise rejects with an error
ProviderError(msg, code) == [kind |-> "error", content |-> "", message |-> msg, code |-> code]

Resolves(o) == o.kind \in {"completion", "emptychoices"}

LongFiller == Repeat("x", REFUSAL_WINDOW)

CommonTexts ==
  { "",
    "A calm summary of the post.",
    "I cannot help with that request.",
    "As an AI, I must decline.",
    "NSFW",
    LongFiller \o " harmful effects" }

ProviderErrors ==
  { ProviderError("network timeout", ""),
    ProviderError("", ""),
    ProviderError("blocked: content_filter", ""),
    ProviderError("flagged by moderation", ""),
    ProviderError("bad request", "content_policy_violation"),
    NoChoices }

CommonOutcomes == {Completion(t) : t \in CommonTexts} \cup {EmptyChoices} \cup ProviderErrors

(***************************************************************************)
(* aiService.js: makeCompletion                                            *)
(***************************************************************************)
REFUSAL_MESSAGE == "The AI could not process this content due to safety guidelines. Please ensure your content is appropriate and try again."
FILTER_MESSAGE == "Your content was flagged by safety filters. Please modify your content and try again."
UNAVAILABLE_MESSAGE == "AI service temporarily unavailable"

\* the argument of groq.chat.completions.create
ProviderCall(systemPrompt, userPrompt, model) ==
  [messages    |-> << [role |-> "system", content |-> systemPrompt],
                      [role |-> "user", content |-> userPrompt] >>,
   model       |-> model,
   temperature |-> TEMPERATURE_X10,
   max_tokens  |-> MAX_TOKENS]

\* completion.choices[0]?.message?.content || ''
ResponseContent(o) == IF o.kind = "completion" THEN o.content ELSE ""

\* how an activation of makeCompletion ends
Returned(mc, response) ==
  [mc EXCEPT !.pc = "returned", !.value = response]
Thrown(mc, name, msg) ==
  [mc EXCEPT !.pc = "thrown", !.error = name, !.message = msg]

\* the activation suspended at its first await
makeCompletion(systemPrompt, userPrompt, model) ==
  [systemPrompt |-> systemPrompt, userPrompt |-> userPrompt, model |-> model,
   pc      |-> "primary",
   calls   |-> << ProviderCall(systemPrompt, userPrompt, model) >>,
   value   |-> "", error |-> "none", message |-> ""]

\* error.message?.includes('content_filter') || error.message?.includes('moderation')
\*   || error.code === 'content_policy_violation'
IsApiContentFilter_CodeOnly(o) == o.code = "content_policy_violation"

IsApiContentFilter(o) ==
  \/ Includes(o.message, "content_filter")
  \/ Includes(o.message, "moderation")
  \/ o.code = "content_policy_violation"

\* a retry that does not look at the model
ShouldRetry_Always(mc) == TRUE

\* if (model !== FALLBACK_MODEL)
ShouldRetry(mc) == mc.model # FALLBACK_MODEL

\* a fallback call that leaves the system prompt out
StartFallback_NoSystem(mc) ==
  [mc EXCEPT !.pc = "fallback",
             !.calls = Append(@, ProviderCall("", mc.userPrompt, FALLBACK_MODEL))]

\* the fallback call the catch block issues
StartFallback(mc) ==
  [mc EXCEPT !.pc = "fallback",
             !.calls = Append(@, ProviderCall(mc.systemPrompt, mc.userPrompt, FALLBACK_MODEL))]

\* a catch block that does not re-throw the ContentModerationError of the try block
PrimarySettled_NoRethrow(mc, o) ==
  IF Resolves(o) /\ ~isContentRefusal(ResponseContent(o))
  THEN Returned(mc, ResponseContent(o))
  ELSE IF ~Resolves(o) /\ IsApiContentFilter(o)
       THEN Thrown(mc, "ContentModerationError", FILTER_MESSAGE)
       ELSE IF ShouldRetry(mc)
            THEN StartFallback(mc)
            ELSE Thrown(mc, "Error", UNAVAILABLE_MESSAGE)

\* a primary attempt that, with nothing to fall back to, calls its model again
PrimarySettled_RetrySame(mc, o) ==
  IF Resolves(o)
  THEN IF isContentRefusal(ResponseContent(o))
       THEN Thrown(mc, "ContentModerationError", REFUSAL_MESSAGE)
       ELSE Returned(mc, ResponseContent(o))
  ELSE IF IsApiContentFilter(o)
       THEN Thrown(mc, "ContentModerationError", FILTER_MESSAGE)
       ELSE IF ShouldRetry(mc)
            THEN StartFallback(mc)
            ELSE [mc EXCEPT !.calls =
                    Append(@, ProviderCall(mc.systemPrompt, mc.userPrompt, mc.model))]

\* the continuation of makeCompletion after the primary call settled with o
PrimarySettled(mc, o) ==
  IF Resolves(o)
  THEN IF isContentRefusal(ResponseContent(o))
       THEN Thrown(mc, "ContentModerationError", REFUSAL_MESSAGE)
       ELSE Returned(mc, ResponseContent(o))
  ELSE IF IsApiContentFilter(o)
       THEN Thrown(mc, "ContentModerationError", FILTER_MESSAGE)
       ELSE IF ShouldRetry(mc)
            THEN StartFallback(mc)
            ELSE Thrown(mc, "Error", UNAVAILABLE_MESSAGE)

\* a fallback that is retried when it fails
FallbackSettled_Again(mc, o) ==
  IF Resolves(o)
  THEN IF isContentRefusal(ResponseContent(o))
       THEN Thrown(mc, "ContentModerationError", REFUSAL_MESSAGE)
       ELSE Returned(mc, ResponseContent(o))
  ELSE StartFallback(mc)

\* a fallback whose completion is returned unexamined
FallbackSettled_Unchecked(mc, o) ==
  IF Resolves(o)
  THEN Returned(mc, ResponseContent(o))
  ELSE Thrown(mc, "Error", UNAVAILABLE_MESSAGE)

\* the continuation of makeCompletion after the fallback call settled with o
FallbackSettled(mc, o) ==
  IF Resolves(o)
  THEN IF isContentRefusal(ResponseContent(o))
       THEN Thrown(mc, "ContentModerationError", REFUSAL_MESSAGE)
       ELSE Returned(mc, ResponseContent(o))
  ELSE Thrown(mc, "Error", UNAVAILABLE_MESSAGE)

Settled(mc, o) ==
  IF mc.pc = "primary" THEN PrimarySettled(mc, o) ELSE FallbackSettled(mc, o)

(***************************************************************************)
(* JavaScript values the operations produce: strings, numbers, arrays,     *)
(* objects, null.  items holds an array's elements or an object's members  *)
(* (as <<key, value>> pairs).                                              *)
(***************************************************************************)
JNull == [t |-> "null", s |-> "", n |-> 0, items |-> <<>>]
JBool(b) == [t |-> "bool", s |-> "", n |-> IF b THEN 1 ELSE 0, items |-> <<>>]
JStr(str) == [t |-> "str", s |-> str, n |-> 0, items |-> <<>>]
JNum(k) == [t |-> "num", s |-> "", n |-> k, items |-> <<>>]
JArr(elems) == [t |-> "arr", s |-> "", n |-> 0, items |-> elems]
JObj(members) == [t |-> "obj", s |-> "", n |-> 0, items |-> members]

(***************************************************************************)
(* JSON.parse, for texts without fractions, exponents and \u escapes       *)
(***************************************************************************)
Digits == "0123456789"
IsDigit(c) == \E k \in 1..10 : CharAt(Digits, k) = c
DigitValue(c) == (CHOOSE k \in 1..10 : CharAt(Digits, k) = c) - 1

ParseFail == [ok |-> FALSE, v |-> JNull, pos |-> 0]
ParseOk(v, pos) == [ok |-> TRUE, v |-> v, pos |-> pos]

\* the first position from i on that holds no whitespace
SkipWs(s, i) ==
  LET solid == {k \in i..Len(s) : CharAt(s, k) \notin WhiteSpace}
  IN IF solid = {} THEN Max(i, Len(s) + 1)
     ELSE CHOOSE k \in solid : \A j \in solid : k <= j

\* the characters of a string literal after its opening quote at i - 1
\* the first position from i on whose character is not a plain one of a string literal
NextSpecial(s, i) ==
  LET special == {k \in i..Len(s) : CharAt(s, k) \in {"\"", "\\", "\n", "\t", "\r"}}
  IN IF special = {} THEN Len(s) + 1
     ELSE CHOOSE k \in special : \A j \in special : k <= j

RECURSIVE ParseStringBody(_, _, _)
ParseStringBody(s, i, acc) ==
  LET q     == NextSpecial(s, i)
      plain == acc \o SubSeq(s, i, q - 1)
  IN IF q > Len(s) THEN ParseFail
     ELSE LET c == CharAt(s, q) IN
       IF c = "\"" THEN ParseOk(JStr(plain), q + 1)
       ELSE IF c = "\\" THEN
         IF q + 1 > Len(s) THEN ParseFail
         ELSE LET e == CharAt(s, q + 1) IN
           IF e \in {"\"", "\\", "/"} THEN ParseStringBody(s, q + 2, plain \o e)
           ELSE IF e = "n" THEN ParseStringBody(s, q + 2, plain \o "\n")
           ELSE IF e = "t" THEN ParseStringBody(s, q + 2, plain \o "\t")
           ELSE IF e = "r" THEN ParseStringBody(s, q + 2, plain \o "\r")
           ELSE ParseFail
       ELSE ParseFail

RECURSIVE ParseDigits(_, _, _)
ParseDigits(s, i, acc) ==
  IF i <= Len(s) /\ IsDigit(CharAt(s, i))
  THEN ParseDigits(s, i + 1, 10 * acc + DigitValue(CharAt(s, i)))
  ELSE ParseOk(JNum(acc), i)

\* -? ( 0 | [1-9][0-9]* )
ParseNumber(s, i) ==
  LET neg == CharAt(s, i) = "-"
      j   == IF neg THEN i + 1 ELSE i
  IN IF j > Len(s) \/ ~IsDigit(CharAt(s, j)) THEN ParseFail
     ELSE IF CharAt(s, j) = "0" THEN ParseOk(JNum(0), j + 1)
     ELSE LET r == ParseDigits(s, j, 0)
          IN ParseOk(JNum(IF neg THEN 0 - r.v.n ELSE r.v.n), r.pos)

RECURSIVE ParseValue(_, _)
RECURSIVE ParseElements(_, _, _)
RECURSIVE ParseMembers(_, _, _)

\* the elements of an array after "[" or ",": i is where the next element starts
ParseElements(s, i, acc) ==
  LET e == ParseValue(s, i) IN
  IF ~e.ok THEN ParseFail
  ELSE LET j == SkipWs(s, e.pos) IN
    IF j > Len(s) THEN ParseFail
    ELSE IF CharAt(s, j) = "," THEN ParseElements(s, j + 1, Append(acc, e.v))
    ELSE IF CharAt(s, j) = "]" THEN ParseOk(JArr(Append(acc, e.v)), j + 1)
    ELSE ParseFail

\* the members of an object after "{" or ",": i is where the next key starts
ParseMembers(s, i, acc) ==
  LET k == SkipWs(s, i) IN
  IF k > Len(s) \/ CharAt(s, k) # "\"" THEN ParseFail
  ELSE LET key == ParseStringBody(s, k + 1, "") IN
    IF ~key.ok THEN ParseFail
    ELSE LET c == SkipWs(s, key.pos) IN
      IF c > Len(s) \/ CharAt(s, c) # ":" THEN ParseFail
      ELSE LET e == ParseValue(s, c + 1) IN
        IF ~e.ok THEN ParseFail
        ELSE LET j == SkipWs(s, e.pos)
                 m == Append(acc, <<key.v.s, e.v>>)
             IN IF j > Len(s) THEN ParseFail
                ELSE IF CharAt(s, j) = "," THEN ParseMembers(s, j + 1, m)
                ELSE IF CharAt(s, j) = "}" THEN ParseOk(JObj(m), j + 1)
                ELSE ParseFail

ParseValue(s, i) ==
  LET j == SkipWs(s, i) IN
  IF j > Len(s) THEN ParseFail
  ELSE LET c == CharAt(s, j) IN
    IF c = "\"" THEN ParseStringBody(s, j + 1, "")
    ELSE IF c = "[" THEN
      LET k == SkipWs(s, j + 1) IN
      IF k <= Len(s) /\ CharAt(s, k) = "]" THEN ParseOk(JArr(<<>>), k + 1)
      ELSE ParseElements(s, j + 1, <<>>)
    ELSE IF c = "{" THEN
      LET k == SkipWs(s, j + 1) IN
      IF k <= Len(s) /\ CharAt(s, k) = "}" THEN ParseOk(JObj(<<>>), k + 1)
      ELSE ParseMembers(s, j + 1, <<>>)
    ELSE IF c = "-" \/ IsDigit(c) THEN ParseNumber(s, j)
    ELSE IF MatchesAt(s, "true", j) THEN ParseOk(JBool(TRUE), j + 4)
    ELSE IF MatchesAt(s, "false", j) THEN ParseOk(JBool(FALSE), j + 5)
    ELSE IF MatchesAt(s, "null", j) THEN ParseOk(JNull, j + 4)
    ELSE ParseFail

\* JSON.parse(text): ok is FALSE where it throws a SyntaxError
JSONParse(text) ==
  LET r == ParseValue(text, 1) IN
  IF r.ok /\ SkipWs(text, r.pos) = Len(text) + 1 THEN r ELSE ParseFail

(***************************************************************************)
(* String and array methods the operations use                             *)
(***************************************************************************)
\* the first position from i up, and the last from i down, that holds no
\* whitespace (one step per whitespace character passed)
RECURSIVE FirstSolid(_, _)
FirstSolid(s, i) ==
  IF i <= Len(s) /\ CharAt(s, i) \in WhiteSpace THEN FirstSolid(s, i + 1) ELSE i

RECURSIVE LastSolid(_, _)
LastSolid(s, i) ==
  IF i >= 1 /\ CharAt(s, i) \in WhiteSpace THEN LastSolid(s, i - 1) ELSE i

\* String.prototype.trim: from the first to the last character that is not whitespace
Trim(s) == SubSeq(s, FirstSolid(s, 1), LastSolid(s, Len(s)))

\* Array.prototype.slice(0, k) for an integer k
Slice0(a, k) ==
  IF k >= 0 THEN SubSeq(a, 1, Min(k, Len(a)))
  ELSE SubSeq(a, 1, Max(Len(a) + k, 0))

\* the 1-based position of the first / last occurrence of character c, 0 if none
FirstIndexOf(s, c) ==
  IF \E i \in 1..Len(s) : CharAt(s, i) = c
  THEN CHOOSE i \in 1..Len(s) : CharAt(s, i) = c /\ \A k \in 1..(i - 1) : CharAt(s, k) # c
  ELSE 0
LastIndexOf(s, c) ==
  IF \E i \in 1..Len(s) : CharAt(s, i) = c
  THEN CHOOSE i \in 1..Len(s) : CharAt(s, i) = c /\ \A k \in (i + 1)..Len(s) : CharAt(s, k) # c
  ELSE 0

\* response.match(/\[.*\]/s) and response.match(/\{[\s\S]*\}/): the span from
\* the first opening character to the last closing one; found is FALSE for null
GreedySpan(s, open, close) ==
  LET a == FirstIndexOf(s, open)
      b == LastIndexOf(s, close)
  IN IF a > 0 /\ b > a THEN [found |-> TRUE, text |-> SubSeq(s, a, b)]
     ELSE [found |-> FALSE, text |-> ""]

(***************************************************************************)
(* Objects: member lookup and the spread { ...members, ...obj }            *)
(***************************************************************************)
HasKey(members, key) == \E k \in 1..Len(members) : members[k][1] = key

\* obj[key], JNull standing for undefined
Field(obj, key) ==
  IF obj.t = "obj" /\ HasKey(obj.items, key)
  THEN obj.items[CHOOSE k \in 1..Len(obj.items) :
                   /\ obj.items[k][1] = key
                   /\ \A j \in (k + 1)..Len(obj.items) : obj.items[j][1] # key][2]
  ELSE JNull

\* members, then one more property: an existing key keeps its place and takes the new value
SetMember(members, key, v) ==
  IF HasKey(members, key)
  THEN [k \in 1..Len(members) |->
          IF members[k][1] = key THEN <<key, v>> ELSE members[k]]
  ELSE Append(members, <<key, v>>)

RECURSIVE SpreadMembers(_, _)
SpreadMembers(members, more) ==
  IF Len(more) = 0 THEN members
  ELSE SpreadMembers(SetMember(members, more[1][1], more[1][2]), Tail(more))

\* { ...members, ...value }: only an object (or array) contributes own properties
Spread(members, value) ==
  IF value.t = "obj" THEN SpreadMembers(members, value.items) ELSE members

(***************************************************************************)
(* aiService.js: the operations                                            *)
(***************************************************************************)
FastOps == {"generateTags", "generateSummary", "generateTitles",
            "changeTone", "grammarCheck", "getCategory"}
BalancedOps == {"expandText", "improveText", "continueWriting"}
Operations == FastOps \cup BalancedOps

\* a choice of models that gives the summary the balanced model too
ModelOf_SummaryBalanced(op) ==
  IF op \in BalancedOps \cup {"generateSummary"} THEN MODELS.BALANCED ELSE MODELS.FAST

\* the model each operation passes to makeCompletion
ModelOf(op) == IF op \in BalancedOps THEN MODELS.BALANCED ELSE MODELS.FAST

lengthInstructions ==
  [short  |-> "1-2 sentences, under 50 words",
   medium |-> "A paragraph, around 100 words",
   long   |-> "Detailed summary, around 200 words"]

\* lengthInstructions[length] || lengthInstructions.short
LengthInstruction(length) ==
  IF length \in DOMAIN lengthInstructions
  THEN lengthInstructions[length] ELSE lengthInstructions.short

\* the system prompt: the template's lines that carry a parameter, the rest elided
SystemPromptOf(op, num, opt) ==
  CASE op = "generateTags" ->
         "You are a content tagging expert. - Maximum " \o ToString(num) \o " tags"
    [] op = "generateSummary" ->
         "You are a content summarizer. Create a " \o opt \o " summary. - Length: "
           \o LengthInstruction(opt)
    [] op = "generateTitles" ->
         "You are a headline expert. - Generate exactly " \o ToString(num)
           \o " different title options"
    [] op = "expandText" ->
         "You are a writing assistant. Expand the given text. - Use a " \o opt \o " tone"
    [] op = "improveText" -> "You are a professional editor."
    [] op = "changeTone" ->
         "You are a writing assistant. Rewrite the given text in a " \o opt \o " tone."
    [] op = "continueWriting" ->
         "You are a writing assistant. Continue the given text naturally. - Add approximately "
           \o ToString(num) \o " more sentences"
    [] op = "grammarCheck" -> "You are a grammar and spelling checker."
    [] op = "getCategory" -> "You are a content classifier."

TAGS_CONTENT_LIMIT == 3000
SUMMARY_CONTENT_LIMIT == 4000
TITLES_CONTENT_LIMIT == 2000
CATEGORY_CONTENT_LIMIT == 2000

UserPromptOf(op, text, num) ==
  CASE op = "generateTags" ->
         "Extract tags from this blog content:\n\n" \o Substring0(text, TAGS_CONTENT_LIMIT)
    [] op = "generateSummary" ->
         "Summarize this blog content:\n\n" \o Substring0(text, SUMMARY_CONTENT_LIMIT)
    [] op = "generateTitles" ->
         "Generate " \o ToString(num) \o " title options for this blog:\n\n"
           \o Substring0(text, TITLES_CONTENT_LIMIT)
    [] op = "getCategory" ->
         "Classify this content:\n\n" \o Substring0(text, CATEGORY_CONTENT_LIMIT)
    [] OTHER -> text

categories ==
  << "Technology", "Programming", "Web Development", "Mobile Development",
     "Data Science", "AI/Machine Learning", "DevOps", "Cybersecurity",
     "Business", "Marketing", "Design", "Lifestyle", "Travel", "Food",
     "Health", "Education", "Finance", "Entertainment", "Sports", "Other" >>

\* the activation of an operation, suspended in its makeCompletion
StartOp(op, text, num, opt) ==
  [op |-> op, text |-> text, num |-> num, opt |-> opt,
   mc |-> makeCompletion(SystemPromptOf(op, num, opt), UserPromptOf(op, text, num), ModelOf(op)),
   settled |-> <<>>,
   st |-> "pending", result |-> JNull, error |-> "none", message |-> ""]

Fulfil(task, mc, v) == [task EXCEPT !.mc = mc, !.st = "fulfilled", !.result = v]
Reject(task, mc) ==
  [task EXCEPT !.mc = mc, !.st = "rejected", !.error = mc.error, !.message = mc.message]

\* tags passed on as the model wrote them
TagsFrom_AsWritten(response, maxTags) ==
  LET jsonMatch == GreedySpan(response, "[", "]") IN
  IF ~jsonMatch.found THEN JArr(<<>>)
  ELSE LET parsed == JSONParse(jsonMatch.text) IN
    IF ~parsed.ok THEN JArr(<<>>)
    ELSE LET sl == Slice0(parsed.v.items, maxTags) IN
      IF \E k \in 1..Len(sl) : sl[k].t # "str" THEN JArr(<<>>) ELSE JArr(sl)

\* tags whose non-string elements are dropped instead of failing the parse
TagsFrom_SkipNonStrings(response, maxTags) ==
  LET jsonMatch == GreedySpan(response, "[", "]") IN
  IF ~jsonMatch.found THEN JArr(<<>>)
  ELSE LET parsed == JSONParse(jsonMatch.text) IN
    IF ~parsed.ok THEN JArr(<<>>)
    ELSE LET sl == SelectSeq(Slice0(parsed.v.items, maxTags), LAMBDA e : e.t = "str") IN
      JArr([k \in 1..Len(sl) |-> JStr(Trim(ToLowerCase(sl[k].s)))])

\* generateTags after makeCompletion returned response
TagsFrom(response, maxTags) ==
  LET jsonMatch == GreedySpan(response, "[", "]") IN
  IF ~jsonMatch.found THEN JArr(<<>>)
  ELSE LET parsed == JSONParse(jsonMatch.text) IN
    IF ~parsed.ok THEN JArr(<<>>)                       \* SyntaxError, caught
    ELSE LET sl == Slice0(parsed.v.items, maxTags) IN
      IF \E k \in 1..Len(sl) : sl[k].t # "str"
      THEN JArr(<<>>)                                    \* TypeError, caught
      ELSE JArr([k \in 1..Len(sl) |-> JStr(Trim(ToLowerCase(sl[k].s)))])

\* generateTitles after makeCompletion returned response
TitlesFrom(response, count) ==
  LET jsonMatch == GreedySpan(response, "[", "]") IN
  IF ~jsonMatch.found THEN JArr(<<>>)
  ELSE LET parsed == JSONParse(jsonMatch.text) IN
    IF ~parsed.ok THEN JArr(<<>>)
    ELSE JArr(Slice0(parsed.v.items, count))

\* an object extraction that gives up the default when the span does not parse
ObjectFrom_NoDefaultOnBadJson(response, default) ==
  LET jsonMatch == GreedySpan(response, "{", "}") IN
  IF ~jsonMatch.found THEN default
  ELSE LET parsed == JSONParse(jsonMatch.text) IN
    IF ~parsed.ok THEN JObj(<<>>) ELSE parsed.v

\* improveText / grammarCheck after makeCompletion returned response
ObjectFrom(response, default) ==
  LET jsonMatch == GreedySpan(response, "{", "}") IN
  IF ~jsonMatch.found THEN default
  ELSE LET parsed == JSONParse(jsonMatch.text) IN
    IF ~parsed.ok THEN default ELSE parsed.v

ImproveDefault(text) == JObj(<< <<"improved", JStr(text)>>, <<"changes", JArr(<<>>)>> >>)
GrammarDefault(text) == JObj(<< <<"corrected", JStr(text)>>, <<"errors", JArr(<<>>)>> >>)

\* a classification that hands a matching answer back as the model spelled it
CategoryFrom_AsAnswered(response) ==
  LET category == Trim(response)
      hits == {k \in 1..Len(categories) : ToLowerCase(categories[k]) = ToLowerCase(category)}
  IN IF hits = {} THEN JStr("Other") ELSE JStr(category)

\* getCategory after makeCompletion returned response
CategoryFrom(response) ==
  LET category == Trim(response)
      hits == {k \in 1..Len(categories) : ToLowerCase(categories[k]) = ToLowerCase(category)}
  IN IF hits = {} THEN JStr("Other")
     ELSE JStr(categories[CHOOSE k \in hits : \A j \in hits : k <= j])

\* the rest of an operation once its makeCompletion has returned or thrown
OpFinish(task, mc) ==
  LET threw == mc.pc = "thrown" IN
  CASE task.op = "generateTags" ->
         Fulfil(task, mc, IF threw THEN JArr(<<>>) ELSE TagsFrom(mc.value, task.num))
    [] task.op = "generateTitles" ->
         Fulfil(task, mc, IF threw THEN JArr(<<>>) ELSE TitlesFrom(mc.value, task.num))
    [] task.op = "improveText" ->
         Fulfil(task, mc, IF threw THEN ImproveDefault(task.text)
                          ELSE ObjectFrom(mc.value, ImproveDefault(task.text)))
    [] task.op = "grammarCheck" ->
         Fulfil(task, mc, IF threw THEN GrammarDefault(task.text)
                          ELSE ObjectFrom(mc.value, GrammarDefault(task.text)))
    [] task.op = "getCategory" ->
         Fulfil(task, mc, IF threw THEN JStr("Other") ELSE CategoryFrom(mc.value))
    [] OTHER ->
         \* generateSummary, expandText, changeTone, continueWriting return the
         \* promise of makeCompletion itself
         IF threw THEN Reject(task, mc) ELSE Fulfil(task, mc, JStr(mc.value))

\* a provider call of the task settles with o: makeCompletion resumes and, when
\* it ends, so does the operation
TaskAfter(task, o) ==
  LET mc == Settled(task.mc, o)
      t  == [task EXCEPT !.settled = Append(@, o)]
  IN IF mc.pc = "fallback" THEN [t EXCEPT !.mc = mc] ELSE OpFinish(t, mc)

(***************************************************************************)
(* routes: the /ai router                                                  *)
(***************************************************************************)
Routes == {"tags", "summary", "titles", "expand", "improve", "tone",
           "continue", "grammar", "category", "analyze"}

NoReq == [route |-> "none", text |-> "", numGiven |-> FALSE, num |-> 0,
          optGiven |-> FALSE, opt |-> ""]
NoResp == [status |-> 0, body |-> JNull]

Json(status, members) == [status |-> status, body |-> JObj(members)]

NOT_CONFIGURED_MESSAGE == "AI service is not configured. Please add GROQ_API_KEY to environment variables."
MODERATION_HINT == "The AI has safety filters that prevent generating certain types of content. Please ensure your content is appropriate for all audiences."

\* an availability check that does not look at the key
isAvailable_Always == TRUE

\* aiService.isAvailable()
isAvailable == apiKey

\* the response checkAIAvailable sends instead of calling next()
NotConfigured ==
  Json(503, << <<"success", JBool(FALSE)>>, <<"message", JStr(NOT_CONFIGURED_MESSAGE)>> >>)

BadRequest(msg) ==
  Json(400, << <<"success", JBool(FALSE)>>, <<"message", JStr(msg)>> >>)

\* handleAIError(error, res, defaultMessage) for the error a task rejected with
handleAIError(task, defaultMessage) ==
  IF task.error = "ContentModerationError"
  THEN Json(422, << <<"success", JBool(FALSE)>>,
                    <<"message", JStr(task.message)>>,
                    <<"code", JStr("CONTENT_MODERATED")>>,
                    <<"hint", JStr(MODERATION_HINT)>> >>)
  ELSE IF task.message = UNAVAILABLE_MESSAGE
  THEN Json(503, << <<"success", JBool(FALSE)>>,
                    <<"message", JStr("AI service is temporarily unavailable. Please try again later.")>>,
                    <<"code", JStr("SERVICE_UNAVAILABLE")>> >>)
  ELSE Json(500, << <<"success", JBool(FALSE)>>,
                    <<"message", JStr(defaultMessage)>>,
                    <<"error", JStr(task.message)>> >>)

DefaultMessage(route) ==
  CASE route = "tags" -> "Failed to generate tags"
    [] route = "summary" -> "Failed to generate summary"
    [] route = "titles" -> "Failed to generate titles"
    [] route = "expand" -> "Failed to expand text"
    [] route = "improve" -> "Failed to improve text"
    [] route = "tone" -> "Failed to change tone"
    [] route = "continue" -> "Failed to continue writing"
    [] route = "grammar" -> "Failed to check grammar"
    [] route = "category" -> "Failed to classify content"
    [] route = "analyze" -> "Failed to analyze content"

\* const { x = d } = req.body
NumOr(r, d) == IF r.numGiven THEN r.num ELSE d
OptOr(r, d) == IF r.optGiven THEN r.opt ELSE d

TAGS_MAX == 10
TITLES_MAX == 10
SENTENCES_MAX == 10
TAGS_MIN_CONTENT == 50
ANALYZE_MIN_CONTENT == 100
CONTINUE_MIN_TEXT == 20
EXPAND_MAX_TEXT == 2000
IMPROVE_MAX_TEXT == 5000
TONE_MAX_TEXT == 3000
GRAMMAR_MAX_TEXT == 5000
DEFAULT_MAX_TAGS == 5
DEFAULT_TITLE_COUNT == 5
DEFAULT_SENTENCES == 3
ANALYZE_MAX_TAGS == 5
ANALYZE_TITLE_COUNT == 3

validTones == {"professional", "casual", "academic", "friendly", "formal"}

\* !content || content.trim().length === 0
Blank(text) == Len(text) = 0 \/ Len(Trim(text)) = 0

\* the 400 message a route's validation answers with, "" when the input passes
Validate(r) ==
  CASE r.route = "tags" ->
         IF Blank(r.text) THEN "Content is required for tag generation"
         ELSE IF Len(r.text) < TAGS_MIN_CONTENT
              THEN "Content must be at least 50 characters for accurate tagging"
         ELSE ""
    [] r.route = "summary" ->
         IF Blank(r.text) THEN "Content is required for summarization"
         ELSE IF OptOr(r, "short") \notin {"short", "medium", "long"}
              THEN "Length must be \"short\", \"medium\", or \"long\""
         ELSE ""
    [] r.route = "titles" ->
         IF Blank(r.text) THEN "Content is required for title generation" ELSE ""
    [] r.route = "expand" ->
         IF Blank(r.text) THEN "Text is required for expansion"
         ELSE IF Len(r.text) > EXPAND_MAX_TEXT
              THEN "Text must be under 2000 characters for expansion"
         ELSE ""
    [] r.route = "improve" ->
         IF Blank(r.text) THEN "Text is required for improvement"
         ELSE IF Len(r.text) > IMPROVE_MAX_TEXT THEN "Text must be under 5000 characters"
         ELSE ""
    [] r.route = "tone" ->
         IF Blank(r.text) THEN "Text is required"
         ELSE IF ~r.optGiven \/ r.opt \notin validTones
              THEN "Target tone must be one of: professional, casual, academic, friendly, formal"
         ELSE IF Len(r.text) > TONE_MAX_TEXT THEN "Text must be under 3000 characters"
         ELSE ""
    [] r.route = "continue" ->
         IF Blank(r.text) THEN "Text is required for continuation"
         ELSE IF Len(r.text) < CONTINUE_MIN_TEXT
              THEN "Please provide at least 20 characters for context"
         ELSE ""
    [] r.route = "grammar" ->
         IF Blank(r.text) THEN "Text is required for grammar check"
         ELSE IF Len(r.text) > GRAMMAR_MAX_TEXT THEN "Text must be under 5000 characters"
         ELSE ""
    [] r.route = "category" ->
         IF Blank(r.text) THEN "Content is required for classification" ELSE ""
    [] r.route = "analyze" ->
         IF Blank(r.text) THEN "Content is required for analysis"
         ELSE IF Len(r.text) < ANALYZE_MIN_CONTENT
              THEN "Content must be at least 100 characters for full analysis"
         ELSE ""

\* the operations a route starts, in the order it starts them
StartRoute(r) ==
  CASE r.route = "tags" ->
         << StartOp("generateTags", r.text, Min(NumOr(r, DEFAULT_MAX_TAGS), TAGS_MAX), "") >>
    [] r.route = "summary" ->
         << StartOp("generateSummary", r.text, 0, OptOr(r, "short")) >>
    [] r.route = "titles" ->
         << StartOp("generateTitles", r.text, Min(NumOr(r, DEFAULT_TITLE_COUNT), TITLES_MAX), "") >>
    [] r.route = "expand" ->
         << StartOp("expandText", r.text, 0, OptOr(r, "professional")) >>
    [] r.route = "improve" -> << StartOp("improveText", r.text, 0, "") >>
    [] r.route = "tone" -> << StartOp("changeTone", r.text, 0, r.opt) >>
    [] r.route = "continue" ->
         << StartOp("continueWriting", r.text, Min(NumOr(r, DEFAULT_SENTENCES), SENTENCES_MAX), "") >>
    [] r.route = "grammar" -> << StartOp("grammarCheck", r.text, 0, "") >>
    [] r.route = "category" -> << StartOp("getCategory", r.text, 0, "") >>
    [] r.route = "analyze" ->
         << StartOp("generateTags", r.text, ANALYZE_MAX_TAGS, ""),
            StartOp("generateSummary", r.text, 0, "short"),
            StartOp("getCategory", r.text, 0, ""),
            StartOp("generateTitles", r.text, ANALYZE_TITLE_COUNT, "") >>

\* value.length, 0 standing for undefined
LengthOf(v) == IF v.t = "str" THEN Len(v.s) ELSE IF v.t = "arr" THEN Len(v.items) ELSE 0

\* the res.json(...) of a route whose operations all fulfilled
SuccessBody(r, ts) ==
  LET ok == << <<"success", JBool(TRUE)>> >> IN
  CASE r.route = "tags" ->
         ok \o << <<"tags", ts[1].result>>, <<"count", JNum(LengthOf(ts[1].result))>> >>
    [] r.route = "summary" ->
         ok \o << <<"summary", ts[1].result>>, <<"length", JStr(OptOr(r, "short"))>> >>
    [] r.route = "titles" ->
         ok \o << <<"titles", ts[1].result>>, <<"count", JNum(LengthOf(ts[1].result))>> >>
    [] r.route = "expand" ->
         ok \o << <<"expanded", ts[1].result>>,
                  <<"originalLength", JNum(Len(r.text))>>,
                  <<"expandedLength", JNum(LengthOf(ts[1].result))>> >>
    [] r.route = "improve" -> Spread(ok, ts[1].result)
    [] r.route = "tone" ->
         ok \o << <<"rewritten", ts[1].result>>, <<"targetTone", JStr(r.opt)>> >>
    [] r.route = "continue" ->
         ok \o << <<"continuation", ts[1].result>>,
                  <<"sentences", JNum(Min(NumOr(r, DEFAULT_SENTENCES), SENTENCES_MAX))>> >>
    [] r.route = "grammar" ->
         SetMember(Spread(ok, ts[1].result), "errorCount",
                   JNum(LengthOf(Field(ts[1].result, "errors"))))
    [] r.route = "category" -> ok \o << <<"category", ts[1].result>> >>
    [] r.route = "analyze" ->
         ok \o << <<"analysis", JObj(<< <<"tags", ts[1].result>>,
                                        <<"summary", ts[2].result>>,
                                        <<"category", ts[3].result>>,
                                        <<"titles", ts[4].result>> >>)>> >>

AllSettled(ts) == \A k \in 1..Len(ts) : ts[k].st # "pending"
AllFulfilled(ts) == \A k \in 1..Len(ts) : ts[k].st = "fulfilled"

\* a handler that waits for every operation and answers with what it has
RouteResume_Partial(r, ts, slot, sent) ==
  IF r.route = "none" \/ sent # NoResp THEN sent
  ELSE IF Len(ts) = 1 /\ ts[slot].st = "rejected"
       THEN handleAIError(ts[slot], DefaultMessage(r.route))
  ELSE IF AllSettled(ts) THEN Json(200, SuccessBody(r, ts))
  ELSE sent

\* a handler that answers only once every operation has settled
RouteResume_AfterAllSettled(r, ts, slot, sent) ==
  IF r.route = "none" \/ sent # NoResp THEN sent
  ELSE IF ~AllSettled(ts) THEN sent
  ELSE IF \E k \in 1..Len(ts) : ts[k].st = "rejected"
       THEN handleAIError(ts[CHOOSE k \in 1..Len(ts) : ts[k].st = "rejected"],
                          DefaultMessage(r.route))
  ELSE Json(200, SuccessBody(r, ts))

\* the route handler resumes when its await settles: the awaited promise (the
\* operation's, or Promise.all of the four) rejects with the first rejection
\* and fulfils once every operation has fulfilled
RouteResume(r, ts, slot, sent) ==
  IF r.route = "none" \/ sent # NoResp THEN sent
  ELSE IF ts[slot].st = "rejected" THEN handleAIError(ts[slot], DefaultMessage(r.route))
  ELSE IF AllFulfilled(ts) THEN Json(200, SuccessBody(r, ts))
  ELSE sent

(***************************************************************************)
(* routes/ai.js: GET /ai/status                                            *)
(***************************************************************************)
StrArr(seq) == JArr([k \in 1..Len(seq) |-> JStr(seq[k])])

\* Object.keys(aiService.MODELS)
ModelKeys == <<"FAST", "BALANCED", "MIXTRAL">>

Features == <<"tags", "summary", "titles", "expand", "improve", "tone",
              "continue", "grammar", "category", "analyze">>

\* the res.json(...) of the status handler
StatusBody ==
  Json(200, << <<"success", JBool(TRUE)>>,
               <<"available", JBool(isAvailable)>>,
               <<"models", StrArr(ModelKeys)>>,
               <<"features", StrArr(Features)>> >>)

(***************************************************************************)
(* routes/blogs.js: POST /blogs                                            *)
(***************************************************************************)
\* the fields of the body the handler reads; "" stands for no template
NoPost == [arrived |-> FALSE, user |-> "", content |-> "", tagsGiven |-> FALSE,
           tags |-> <<>>, autoTagGiven |-> FALSE, autoTag |-> FALSE, template |-> ""]

CONTENT_MAX == 50000
TEMPLATE_MAX == 50
AUTO_TAG_MIN_CONTENT == 100
BLOG_MAX_TAGS == 5

\* validateBlogInput({content, media, language}).errors for a body without
\* media and language
validateBlogInput(p) ==
  IF Blank(p.content) THEN <<"Blog content cannot be empty">>
  ELSE IF Len(p.content) > CONTENT_MAX
       THEN <<"Blog content cannot exceed 50,000 characters">>
  ELSE <<>>

ValidationFailed(errors) ==
  [status |-> 400,
   body |-> JObj(<< <<"message", JStr("Validation failed")>>,
                    <<"errors", StrArr(errors)>> >>)]

\* const { autoTag = true } = req.body
AutoTag(p) == IF p.autoTagGiven THEN p.autoTag ELSE TRUE

\* tags && tags.length > 0
OwnTags(p) == p.tagsGiven /\ Len(p.tags) > 0

\* autoTag && aiService && aiService.isAvailable() && content.length >= 100
WantsAI(p) == AutoTag(p) /\ isAvailable /\ Len(p.content) >= AUTO_TAG_MIN_CONTENT

\* a handler that asks for AI tags whether or not the caller sent tags
StartBlogOps_TagsAnyway(p) ==
  << StartOp("generateTags", p.content, BLOG_MAX_TAGS, ""),
     StartOp("generateSummary", p.content, 0, "short"),
     StartOp("getCategory", p.content, 0, "") >>

\* the operations in the array of Promise.all; Promise.resolve(tags) is none
StartBlogOps(p) ==
  (IF OwnTags(p) THEN <<>>
   ELSE << StartOp("generateTags", p.content, BLOG_MAX_TAGS, "") >>)
  \o << StartOp("generateSummary", p.content, 0, "short"),
        StartOp("getCategory", p.content, 0, "") >>

\* a handler that keeps whatever summary and category did arrive
BlogValues_Partial(p, ts, ai) ==
  [content |-> Trim(p.content),
   authorId |-> p.user,
   template |-> IF p.template = "" THEN "default" ELSE p.template,
   tags |-> IF ai /\ ~OwnTags(p) THEN ts[1].result ELSE StrArr(p.tags),
   summary |-> IF Len(ts) >= 2 /\ ts[Len(ts) - 1].st = "fulfilled"
               THEN ts[Len(ts) - 1].result ELSE JNull,
   category |-> IF Len(ts) >= 2 /\ ts[Len(ts)].st = "fulfilled"
                THEN ts[Len(ts)].result ELSE JStr("Other"),
   aiGenerated |-> ai]

\* the object handed to Blog.create; ai says that Promise.all fulfilled
BlogValues(p, ts, ai) ==
  [content |-> Trim(p.content),
   authorId |-> p.user,
   template |-> IF p.template = "" THEN "default" ELSE p.template,
   tags |-> IF ai /\ ~OwnTags(p) THEN ts[1].result ELSE StrArr(p.tags),
   summary |-> IF ai THEN ts[Len(ts) - 1].result ELSE JNull,
   category |-> IF ai THEN ts[Len(ts)].result ELSE JStr("Other"),
   aiGenerated |-> ai]

\* models/Blog.js: the messages of the SequelizeValidationError for the values,
\* after the beforeValidate hook trimmed them
ModelErrors(values) ==
  IF Len(Trim(values.template)) > TEMPLATE_MAX
  THEN <<"Template name cannot exceed 50 characters">> ELSE <<>>

\* models/Blog.js: the row kept for the values, which has the model's attributes;
\* id stands for the UUID the model draws
BlogRow(values, id) ==
  [id |-> id, authorId |-> values.authorId,
   content |-> Trim(values.content), template |-> Trim(values.template)]

Created(row) ==
  [status |-> 201,
   body |-> JObj(<< <<"message", JStr("Blog post created successfully")>>,
                    <<"blog", JObj(<< <<"content", JStr(row.content)>>,
                                      <<"template", JStr(row.template)>> >>)>> >>)]

\* Blog.create, Blog.findByPk and the response, or the catch of the handler
SaveBlog(p, ts, ai, store, log) ==
  LET values == BlogValues(p, ts, ai)
      row == BlogRow(values, Len(log) + 1) IN
  IF ModelErrors(values) # <<>>
  THEN [resp |-> ValidationFailed(ModelErrors(values)), blogs |-> store,
        created |-> Append(log, values)]
  ELSE [resp |-> Created(row), blogs |-> Append(store, row),
        created |-> Append(log, values)]

\* a handler that lets a failed AI step fail the request
BlogResume_AIErrorFails(p, ts, slot, sent, store, log) ==
  IF sent # NoResp THEN [resp |-> sent, blogs |-> store, created |-> log]
  ELSE IF ts[slot].st = "rejected"
       THEN [resp |-> [status |-> 500,
                       body |-> JObj(<< <<"message", JStr("Server error while creating blog")>> >>)],
             blogs |-> store, created |-> log]
  ELSE IF AllFulfilled(ts) THEN SaveBlog(p, ts, TRUE, store, log)
  ELSE [resp |-> sent, blogs |-> store, created |-> log]

\* the handler resumes when Promise.all settles: a rejection is caught and
\* logged, and either way the blog is saved
BlogResume(p, ts, slot, sent, store, log) ==
  IF sent # NoResp THEN [resp |-> sent, blogs |-> store, created |-> log]
  ELSE IF ts[slot].st = "rejected" THEN SaveBlog(p, ts, FALSE, store, log)
  ELSE IF AllFulfilled(ts) THEN SaveBlog(p, ts, TRUE, store, log)
  ELSE [resp |-> sent, blogs |-> store, created |-> log]

(***************************************************************************)
(* Inputs                                                                  *)
(***************************************************************************)
Text60 == "React hooks let a component keep state without any classes."
Text120 == Text60 \o " " \o "Node.js runs the same language on the server, with npm."

\* longer than every truncation limit of the operations
Text4001 == Text120 \o Repeat("a", SUMMARY_CONTENT_LIMIT + 1 - Len(Text120))

ContentTexts == {"", "   ", "Short note.", Text60, Text120, Text4001}

ArrayTexts ==
  { "Here are tags: [\"react\", \"Node.js\", \"Web-Dev\"]",
    "[\" Go \", \"RUST\"]",
    "[]",
    "[\"harmful\", \"x\"]",
    "[\"nsfw\"]",
    "[1] tags: [\"a\"]",
    "[\"a\", 1]",
    "[a, b]",
    "tags: react, node",
    "[\"a\"\n, \"b\"] done",
    "[\"a\",\"b\",\"c\",\"d\",\"e\",\"f\",\"g\",\"h\",\"i\",\"j\",\"k\",\"l\"]" }

ObjectTexts ==
  { "{\"improved\": \"Better.\", \"changes\": [\"c\"]}",
    "Result: {\"corrected\": \"Ok.\", \"errors\": []}",
    "{not json}" }

CategoryTexts == { "  web development  ", "quantum knitting", "DevOps" }

\* what a provider call made for op can settle to
OutcomesFor(op) ==
  CommonOutcomes \cup
  { Completion(t) : t \in
      CASE op \in {"generateTags", "generateTitles"} -> ArrayTexts
        [] op \in {"improveText", "grammarCheck"} -> ObjectTexts
        [] op = "getCategory" -> CategoryTexts
        [] OTHER -> {} }

\* the outcomes followed while the four calls of /analyze are in flight together
CoreOutcomesFor(op) ==
  { Completion("A calm summary of the post."),
    Completion("I cannot help with that request."),
    ProviderError("network timeout", ""),
    ProviderError("blocked: content_filter", "") }
  \cup
  { Completion(t) : t \in
      CASE op \in {"generateTags", "generateTitles"} ->
             {"Here are tags: [\"react\", \"Node.js\", \"Web-Dev\"]"}
        [] op = "getCategory" -> {"  web development  "}
        [] OTHER -> {} }

NumValues == ((0 - 1)..MaxCount) \cup {TAGS_MAX + 2}
OptValues == {"short", "long", "casual", "huge"}

NumRoutes == {"tags", "titles", "continue"}
OptRoutes == {"summary", "expand", "tone"}

\* the requests: a route and the fields of the body the route reads
Requests ==
  { [route |-> r, text |-> t, numGiven |-> FALSE, num |-> 0, optGiven |-> FALSE, opt |-> ""] :
      r \in Routes, t \in ContentTexts }
  \cup
  { [route |-> r, text |-> t, numGiven |-> TRUE, num |-> n, optGiven |-> FALSE, opt |-> ""] :
      r \in NumRoutes, t \in ContentTexts, n \in NumValues }
  \cup
  { [route |-> r, text |-> t, numGiven |-> FALSE, num |-> 0, optGiven |-> TRUE, opt |-> o] :
      r \in OptRoutes, t \in ContentTexts, o \in OptValues }

LongTemplate == Repeat("t", TEMPLATE_MAX + 1)

TagLists == { <<>>, <<"news", "misc">> }

\* the bodies of POST /blogs
Posts ==
  { [arrived |-> TRUE, user |-> "u1", content |-> c, tagsGiven |-> FALSE, tags |-> <<>>,
     autoTagGiven |-> g, autoTag |-> FALSE, template |-> t] :
      c \in ContentTexts, g \in BOOLEAN, t \in {"", LongTemplate} }
  \cup
  { [arrived |-> TRUE, user |-> "u1", content |-> c, tagsGiven |-> TRUE, tags |-> l,
     autoTagGiven |-> g, autoTag |-> FALSE, template |-> t] :
      c \in ContentTexts, l \in TagLists, g \in BOOLEAN, t \in {"", LongTemplate} }

SystemPrompts == {"You are a helper.", "Return ONLY text."}
UserPrompts == {"first text", "I cannot sleep"}

(***************************************************************************)
(* Actions                                                                 *)
(***************************************************************************)
\* no operation called from outside the routes
NoCall == [op |-> "none", content |-> JNull, numGiven |-> FALSE, num |-> 0,
           optGiven |-> FALSE, opt |-> ""]

\* the last request handled was no PUT or DELETE /blogs/:id
NoEdit == [method |-> "none", user |-> "", id |-> 0,
           contentGiven |-> FALSE, content |-> "",
           templateGiven |-> FALSE, template |-> ""]

\* no GET /blogs handled yet
NoList == [asked |-> FALSE,
           query |-> [pageGiven |-> FALSE, page |-> "", limitGiven |-> FALSE, limit |-> ""],
           offset |-> 0, limit |-> 0, status |-> 0, shown |-> <<>>,
           currentPage |-> 0, totalPages |-> 0, totalBlogs |-> 0,
           hasNextPage |-> FALSE, hasPrevPage |-> FALSE]

\* the initial state of the auth store, with no token in localStorage, no
\* call awaiting its response and no function of the store run yet
SignedOut == [user |-> "", token |-> "", isAuthenticated |-> FALSE,
              isLoading |-> FALSE, error |-> "", stored |-> "",
              pending |-> <<>>, last |-> "none"]

NotClassified == [text |-> "", verdict |-> FALSE, ran |-> FALSE,
                  offset |-> 0, phrase |-> "", mode |-> "lower", tail |-> 0]

Init ==
  /\ tasks = <<>>
  /\ req = NoReq
  /\ resp = NoResp
  /\ apiKey \in BOOLEAN
  /\ cls = NotClassified
  /\ post = NoPost
  /\ blogs = <<>>
  /\ call = NoCall
  /\ created = <<>>
  /\ edit = NoEdit
  /\ list = NoList
  /\ auth = SignedOut

\* POST /ai/<route>: checkAIAvailable, then the handler up to its await.  The
\* pipeline keeps nothing between requests, so one request is followed from
\* its arrival to the settling of its last provider call.
Request(r) ==
  /\ req = NoReq /\ tasks = <<>> /\ ~post.arrived
  /\ req' = r
  /\ IF ~isAvailable
     THEN tasks' = <<>> /\ resp' = NotConfigured
     ELSE IF Validate(r) # ""
     THEN tasks' = <<>> /\ resp' = BadRequest(Validate(r))
     ELSE tasks' = StartRoute(r) /\ resp' = NoResp
  /\ UNCHANGED <<apiKey, cls, post, blogs, call, created, edit, list, auth>>

\* GET /ai/status: checkAIAvailable, then the handler
Status ==
  /\ req = NoReq /\ tasks = <<>> /\ ~post.arrived
  /\ req' = [NoReq EXCEPT !.route = "status"]
  /\ resp' = IF ~isAvailable THEN NotConfigured ELSE StatusBody
  /\ UNCHANGED <<tasks, apiKey, cls, post, blogs, call, created, edit, list, auth>>

\* POST /blogs from its arrival to its await or, without the AI step, its end
HandlePost(p) ==
  /\ post' = p
  /\ IF validateBlogInput(p) # <<>>
     THEN /\ tasks' = <<>> /\ blogs' = blogs /\ created' = created
          /\ resp' = ValidationFailed(validateBlogInput(p))
     ELSE IF WantsAI(p)
     THEN /\ tasks' = StartBlogOps(p) /\ resp' = NoResp
          /\ blogs' = blogs /\ created' = created
     ELSE /\ tasks' = <<>>
          /\ resp' = SaveBlog(p, <<>>, FALSE, blogs, created).resp
          /\ blogs' = SaveBlog(p, <<>>, FALSE, blogs, created).blogs
          /\ created' = SaveBlog(p, <<>>, FALSE, blogs, created).created

\* POST /blogs: the handler up to its await or, without the AI step, to its end
CreateBlog(p) ==
  /\ req = NoReq /\ tasks = <<>> /\ ~post.arrived
  /\ HandlePost(p)
  /\ UNCHANGED <<req, apiKey, cls, call, edit, list, auth>>

\* a provider call in flight settles; makeCompletion, the operation and the
\* route handler run on from there
ProviderSettles(slot, o) ==
  /\ slot \in 1..Len(tasks)
  /\ tasks[slot].st = "pending"
  /\ tasks' = [tasks EXCEPT ![slot] = TaskAfter(tasks[slot], o)]
  /\ IF post.arrived
     THEN /\ resp' = BlogResume(post, tasks', slot, resp, blogs, created).resp
          /\ blogs' = BlogResume(post, tasks', slot, resp, blogs, created).blogs
          /\ created' = BlogResume(post, tasks', slot, resp, blogs, created).created
     ELSE /\ resp' = RouteResume(req, tasks', slot, resp)
          /\ blogs' = blogs /\ created' = created
  /\ UNCHANGED <<req, apiKey, cls, post, call, edit, list, auth>>

Next ==
  \/ \E r \in Requests : Request(r)
  \/ Status
  \/ \E p \in Posts : CreateBlog(p)
  \/ \E slot \in 1..Len(tasks) :
       \E o \in IF Len(tasks) > 1 THEN CoreOutcomesFor(tasks[slot].op)
                 ELSE OutcomesFor(tasks[slot].op) :
         ProviderSettles(slot, o)

Spec == Init /\ [][Next]_vars

(***************************************************************************)
(* makeCompletion on its own, for any prompts and any model                *)
(***************************************************************************)
InvokeMakeCompletion(systemPrompt, userPrompt, model) ==
  /\ req = NoReq /\ tasks = <<>>
  /\ tasks' = << [op |-> "makeCompletion", text |-> "", num |-> 0, opt |-> "",
                  mc |-> makeCompletion(systemPrompt, userPrompt, model),
                  settled |-> <<>>,
                  st |-> "pending", result |-> JNull, error |-> "none", message |-> ""] >>
  /\ UNCHANGED <<req, resp, apiKey, cls, post, blogs, call, created, edit, list, auth>>

NextInvoker ==
  \/ \E sp \in SystemPrompts : \E up \in UserPrompts : \E m \in ModelNames :
       InvokeMakeCompletion(sp, up, m)
  \/ \E o \in OutcomesFor("makeCompletion") : ProviderSettles(1, o)

SpecInvoker == Init /\ [][NextInvoker]_vars

(***************************************************************************)
(* makeCompletion on its own, every provider call settling in the end      *)
(***************************************************************************)
SpecInvokerFair ==
  SpecInvoker /\ WF_vars(\E o \in OutcomesFor("makeCompletion") : ProviderSettles(1, o))

(***************************************************************************)
(* the operations on their own, called with any content and with or        *)
(* without their optional parameter                                        *)
(***************************************************************************)
\* the operations that cut their content with content.substring
ContentOps == {"generateTags", "generateSummary", "generateTitles", "getCategory"}

\* the default parameters maxTags = 5, count = 5, sentences = 3
NumDefault(op) ==
  CASE op = "generateTags" -> 5
    [] op = "generateTitles" -> 5
    [] op = "continueWriting" -> 3
    [] OTHER -> 0

\* the default parameters of a summary that is long by default
OptDefault_Medium(op) ==
  CASE op = "generateSummary" -> "medium"
    [] op = "expandText" -> "professional"
    [] op = "changeTone" -> "undefined"
    [] OTHER -> ""

\* the default parameters length = 'short', tone = 'professional'; targetTone
\* has none and is interpolated as undefined
OptDefault(op) ==
  CASE op = "generateSummary" -> "short"
    [] op = "expandText" -> "professional"
    [] op = "changeTone" -> "undefined"
    [] OTHER -> ""

\* a makeCompletion that was never entered
NotCalled ==
  [systemPrompt |-> "", userPrompt |-> "", model |-> "", pc |-> "none",
   calls |-> <<>>, value |-> "", error |-> "none", message |-> ""]

\* the activation of the operation for the call c. content.substring is
\* evaluated before the try block: for a content that is no string the async
\* function's promise rejects with the TypeError and makeCompletion is not entered
OpCalled(c) ==
  IF c.op \in ContentOps /\ c.content.t # "str"
  THEN [op |-> c.op, text |-> "", num |-> 0, opt |-> "",
        mc |-> NotCalled, settled |-> <<>>,
        st |-> "rejected", result |-> JNull, error |-> "TypeError",
        message |-> IF c.content.t = "null"
                    THEN "Cannot read properties of undefined (reading 'substring')"
                    ELSE "content.substring is not a function"]
  ELSE StartOp(c.op, c.content.s,
               IF c.numGiven THEN c.num ELSE NumDefault(c.op),
               IF c.optGiven THEN c.opt ELSE OptDefault(c.op))

\* what the content argument can be: undefined, a number, a string
ContentValues == {JNull, JNum(7), JStr("Short note."), JStr(Text4001)}

NumOps == {"generateTags", "generateTitles", "continueWriting"}
OptOps == {"generateSummary", "expandText", "changeTone"}

\* an operation and its content: the content operations with any content
\* value; the text operations, which hand their text to makeCompletion
\* untouched, with strings
Targets(ops) ==
  {t \in ops \X ContentValues : t[2].t = "str" \/ t[1] \in ContentOps}

Calls ==
  { [op |-> t[1], content |-> t[2], numGiven |-> FALSE, num |-> 0,
     optGiven |-> FALSE, opt |-> ""] : t \in Targets(Operations) }
  \cup
  { [op |-> t[1], content |-> t[2], numGiven |-> TRUE, num |-> n,
     optGiven |-> FALSE, opt |-> ""] : t \in Targets(NumOps), n \in 1..MaxCount }
  \cup
  { [op |-> t[1], content |-> t[2], numGiven |-> FALSE, num |-> 0,
     optGiven |-> TRUE, opt |-> o] : t \in Targets(OptOps), o \in OptValues }

InvokeOperation(c) ==
  /\ req = NoReq /\ tasks = <<>> /\ ~post.arrived /\ call = NoCall
  /\ call' = c
  /\ tasks' = << OpCalled(c) >>
  /\ UNCHANGED <<req, resp, apiKey, cls, post, blogs, created, edit, list, auth>>

NextOperations ==
  \/ \E c \in Calls : InvokeOperation(c)
  \/ \E slot \in 1..Len(tasks) :
       \E o \in CoreOutcomesFor(tasks[slot].op) : ProviderSettles(slot, o)

SpecOperations == Init /\ [][NextOperations]_vars

(***************************************************************************)
(* isContentRefusal on its own: a phrase placed at an offset in filler,    *)
(* in some letter case, followed by a tail                                 *)
(***************************************************************************)
\* phrases the patterns are meant to catch
FixedPhrases ==
  { "i cannot", "i can't", "i'm unable", "i am unable", "i will not", "i won't",
    "inappropriate", "offensive", "harmful", "against my guidelines",
    "violates our policy", "violatespolicy", "as an ai", "as a language model",
    "i'm not able to", "i am not able to", "cannot assist with", "can't help with",
    "explicit", "adult content", "nsfw" }
\* wordings no pattern matches
OtherPhrases == {"violates\nour policy", "harmless", "i can not"}

CaseModes == {"lower", "upper"}

Cased(p, mode) == IF mode = "upper" THEN ToUpperCase(p) ELSE p

LongestPhrase == Len("against my guidelines")

Offsets == (0..1) \cup ((REFUSAL_WINDOW - LongestPhrase - 1)..(REFUSAL_WINDOW + MaxOver))

Classify(offset, phrase, mode, tail) ==
  /\ ~cls.ran
  /\ LET text == Repeat("x", offset) \o Cased(phrase, mode) \o Repeat("!", tail)
     IN cls' = [text |-> text, verdict |-> isContentRefusal(text), ran |-> TRUE,
                offset |-> offset, phrase |-> phrase, mode |-> mode, tail |-> tail]
  /\ UNCHANGED <<tasks, req, resp, apiKey, post, blogs, call, created, edit, list, auth>>

NextClassifier ==
  \E offset \in Offsets : \E phrase \in FixedPhrases \cup OtherPhrases :
    \E mode \in CaseModes : \E tail \in 0..MaxTail :
      Classify(offset, phrase, mode, tail)

\* the classifier reads no configuration
InitClassifier == Init /\ apiKey

SpecClassifier == InitClassifier /\ [][NextClassifier]_vars

(***************************************************************************)
(* routes/blogs.js: GET /blogs, PUT /blogs/:id and DELETE /blogs/:id, for  *)
(* requests that passed the auth middleware as user req.user.id            *)
(***************************************************************************)
\* the most calls of Blog.create in a behaviour
MaxBlogs == 2

Users == {"u1", "u2"}

\* the bodies of POST /blogs that ask for no AI step
PlainPosts ==
  { [arrived |-> TRUE, user |-> u, content |-> c, tagsGiven |-> FALSE, tags |-> <<>>,
     autoTagGiven |-> TRUE, autoTag |-> FALSE, template |-> ""] :
      u \in Users, c \in {"", "Short note."} }

Message(status, text) ==
  [status |-> status, body |-> JObj(<< <<"message", JStr(text)>> >>)]

\* Blog.findByPk(id): the position of the row in the table, or 0
FindByPk(store, id) ==
  IF \E k \in 1..Len(store) : store[k].id = id
  THEN CHOOSE k \in 1..Len(store) : store[k].id = id ELSE 0

\* models/Blog.js: the messages of the validators for a row about to be saved
RowErrors(row) ==
  (IF row.content = ""
   THEN <<"Blog post must have content",
          "Content must be between 1 and 50,000 characters">>
   ELSE IF Len(row.content) > CONTENT_MAX
   THEN <<"Content must be between 1 and 50,000 characters">> ELSE <<>>)
  \o (IF Len(row.template) > TEMPLATE_MAX
      THEN <<"Template name cannot exceed 50 characters">> ELSE <<>>)

\* the assignments to the instance and the beforeValidate hook
Updated(row, e) ==
  [row EXCEPT !.content = IF e.contentGiven THEN Trim(e.content) ELSE @,
              !.template = IF e.templateGiven THEN Trim(e.template) ELSE @]

UpdatedBody(row) ==
  [status |-> 200,
   body |-> JObj(<< <<"message", JStr("Blog post updated successfully")>>,
                    <<"blog", JObj(<< <<"content", JStr(row.content)>>,
                                      <<"template", JStr(row.template)>> >>)>> >>)]

\* a PUT handler that updates the row for any signed-in user
PutResult_AnyUser(store, e) ==
  LET k == FindByPk(store, e.id) IN
  IF k = 0 THEN [resp |-> Message(404, "Blog post not found"), blogs |-> store]
  ELSE IF e.contentGiven /\ e.content # ""
          /\ validateBlogInput([content |-> e.content]) # <<>>
  THEN [resp |-> ValidationFailed(validateBlogInput([content |-> e.content])),
        blogs |-> store]
  ELSE IF RowErrors(Updated(store[k], e)) # <<>>
  THEN [resp |-> ValidationFailed(RowErrors(Updated(store[k], e))), blogs |-> store]
  ELSE [resp |-> UpdatedBody(Updated(store[k], e)),
        blogs |-> [store EXCEPT ![k] = Updated(store[k], e)]]

\* PUT /blogs/:id: the response and the table after the handler
PutResult(store, e) ==
  LET k == FindByPk(store, e.id) IN
  IF k = 0 THEN [resp |-> Message(404, "Blog post not found"), blogs |-> store]
  ELSE IF store[k].authorId # e.user
  THEN [resp |-> Message(401, "You are not authorized to update this blog post"),
        blogs |-> store]
  ELSE IF e.contentGiven /\ e.content # ""
          /\ validateBlogInput([content |-> e.content]) # <<>>
  THEN [resp |-> ValidationFailed(validateBlogInput([content |-> e.content])),
        blogs |-> store]
  ELSE IF RowErrors(Updated(store[k], e)) # <<>>
  THEN [resp |-> ValidationFailed(RowErrors(Updated(store[k], e))), blogs |-> store]
  ELSE [resp |-> UpdatedBody(Updated(store[k], e)),
        blogs |-> [store EXCEPT ![k] = Updated(store[k], e)]]

\* DELETE /blogs/:id: the response and the table after the handler
DeleteResult(store, e) ==
  LET k == FindByPk(store, e.id) IN
  IF k = 0 THEN [resp |-> Message(404, "Blog post not found"), blogs |-> store]
  ELSE IF store[k].authorId # e.user
  THEN [resp |-> Message(401, "You are not authorized to delete this blog post"),
        blogs |-> store]
  ELSE [resp |-> Message(200, "Blog post deleted successfully"),
        blogs |-> SubSeq(store, 1, k - 1) \o SubSeq(store, k + 1, Len(store))]

\* the PUT requests: who sends it, for which id, with which fields
Puts ==
  { e \in [method : {"PUT"}, user : Users, id : 1..MaxBlogs,
           contentGiven : BOOLEAN, content : {"", "   ", " Edited. "},
           templateGiven : BOOLEAN, template : {"", LongTemplate}] :
      /\ e.contentGiven \/ e.content = ""
      /\ e.templateGiven = (e.template # "")
      /\ e.contentGiven # e.templateGiven }

Deletes ==
  { [method |-> "DELETE", user |-> u, id |-> id, contentGiven |-> FALSE, content |-> "",
     templateGiven |-> FALSE, template |-> ""] : u \in Users, id \in 1..MaxBlogs }

\* parseInt(text): optional whitespace and sign, then the leading decimal
\* digits; NaN without a digit there (texts with a 0x prefix are not drawn)
ParseInt(given, text) ==
  LET i == SkipWs(text, 1)
      signed == i <= Len(text) /\ CharAt(text, i) \in {"-", "+"}
      j == IF signed THEN i + 1 ELSE i
      run == ParseDigits(text, j, 0) IN
  IF ~given \/ run.pos = j THEN [nan |-> TRUE, n |-> 0]
  ELSE [nan |-> FALSE,
        n |-> IF signed /\ CharAt(text, i) = "-" THEN 0 - run.v.n ELSE run.v.n]

\* parsed || fallback: NaN and 0 are falsy
OrElse(parsed, fallback) == IF parsed.nan \/ parsed.n = 0 THEN fallback ELSE parsed.n

\* Math.ceil(a / b) for a >= 0 and b # 0
CeilDiv(a, b) ==
  IF b > 0 THEN (a + b - 1) \div b ELSE 0 - (a \div (0 - b))

\* const limit = Math.min(parseInt(req.query.limit) || 10, 50)
PageLimit(q) == Min(OrElse(ParseInt(q.limitGiven, q.limit), 10), 50)

\* const page = parseInt(req.query.page) || 1
PageNumber(q) == OrElse(ParseInt(q.pageGiven, q.page), 1)

\* the ids of the rows Blog.findAll returns, latest first
RowsShown(store, offset, limit) ==
  [k \in 1..Max(0, Min(limit, Len(store) - offset)) |-> store[Len(store) - offset - k + 1].id]

\* GET /blogs without author and sort: the arguments of the query and the
\* pagination of the response.  PostgreSQL rejects a negative LIMIT or OFFSET,
\* which the catch answers with 500.
Listed(q, store) ==
  LET page == PageNumber(q)
      limit == PageLimit(q)
      skip == (page - 1) * limit
      totalBlogs == Len(store)
      totalPages == CeilDiv(totalBlogs, limit)
      failed == skip < 0 \/ limit < 0 IN
  [asked |-> TRUE, query |-> q, offset |-> skip, limit |-> limit,
   status |-> IF failed THEN 500 ELSE 200,
   shown |-> IF failed THEN <<>> ELSE RowsShown(store, skip, limit),
   currentPage |-> page, totalPages |-> totalPages, totalBlogs |-> totalBlogs,
   hasNextPage |-> page < totalPages, hasPrevPage |-> page > 1]

Queries ==
  { q \in [pageGiven : BOOLEAN, page : {"", "0", "-2", "abc", "1", "2", " 3rd"},
           limitGiven : BOOLEAN, limit : {"", "0", "-2", "abc", "1", "51"}] :
      /\ q.pageGiven \/ q.page = ""
      /\ q.limitGiven \/ q.limit = "" }

\* POST /blogs, one request after the other
PostBlog(p) ==
  /\ tasks = <<>> /\ Len(created) < MaxBlogs
  /\ HandlePost(p)
  /\ edit' = NoEdit
  /\ UNCHANGED <<req, apiKey, cls, call, list, auth>>

\* PUT /blogs/:id
PutBlog(e) ==
  /\ edit' = e
  /\ resp' = PutResult(blogs, e).resp
  /\ blogs' = PutResult(blogs, e).blogs
  /\ UNCHANGED <<tasks, req, apiKey, cls, post, call, created, list, auth>>

\* DELETE /blogs/:id
DeleteBlog(e) ==
  /\ edit' = e
  /\ resp' = DeleteResult(blogs, e).resp
  /\ blogs' = DeleteResult(blogs, e).blogs
  /\ UNCHANGED <<tasks, req, apiKey, cls, post, call, created, list, auth>>

\* GET /blogs
ListBlogs(q) ==
  /\ list' = Listed(q, blogs)
  /\ edit' = NoEdit
  /\ UNCHANGED <<tasks, req, resp, apiKey, cls, post, blogs, call, created, auth>>

NextBlogs ==
  \/ \E p \in PlainPosts : PostBlog(p)
  \/ \E e \in Puts : PutBlog(e)
  \/ \E e \in Deletes : DeleteBlog(e)

SpecBlogs == Init /\ [][NextBlogs]_vars

NextListing ==
  \/ \E p \in PlainPosts : PostBlog(p)
  \/ \E q \in Queries : ListBlogs(q)

SpecListing == Init /\ [][NextListing]_vars

(***************************************************************************)
(* stores/authStore.js: the client's auth store                            *)
(***************************************************************************)
\* the most calls of the store awaiting their response at a time
MaxPending == 2

Accounts == {"ana", "raj"}

\* the token the server issues for an account, and the account of a token
TokenOf(account) == "jwt-" \o account

AccountOf(token) == CHOOSE a \in Accounts : TokenOf(a) = token

\* what the server can answer to a call of the store
AuthOutcomes(fn) ==
  IF fn = "fetchUser" THEN {"ok", "401", "failed"} ELSE {"ok", "failed"}

\* set(partial): the store's state with the given fields replaced
LoggedIn(a, account) ==
  [a EXCEPT !.user = account, !.token = TokenOf(account), !.stored = TokenOf(account),
            !.isAuthenticated = TRUE, !.isLoading = FALSE]

\* logout: localStorage.removeItem('token') and the set of the four fields
LoggedOut(a) ==
  [a EXCEPT !.stored = "", !.user = "", !.token = "",
            !.isAuthenticated = FALSE, !.error = ""]

\* fetchUser after its await: the try's set, or the catch with its logout on 401
FetchUserReturned(a, sent, outcome) ==
  IF outcome = "ok"
  THEN [a EXCEPT !.user = AccountOf(sent), !.isAuthenticated = TRUE, !.isLoading = FALSE]
  ELSE IF outcome = "401" THEN LoggedOut([a EXCEPT !.isLoading = FALSE])
  ELSE [a EXCEPT !.isLoading = FALSE]

\* login and register after their await
SignInReturned(a, fn, account, outcome) ==
  IF outcome = "ok" THEN LoggedIn(a, account)
  ELSE [a EXCEPT !.isLoading = FALSE,
                 !.error = IF fn = "login" THEN "Login failed" ELSE "Registration failed"]

\* fetchUser up to its await; it returns at once without a stored token
FetchUserCalled(a) ==
  IF a.stored = "" THEN a
  ELSE [a EXCEPT !.isLoading = TRUE,
                 !.pending = Append(@, [fn |-> "fetchUser", account |-> "", sent |-> a.stored])]

Without(seq, i) == SubSeq(seq, 1, i - 1) \o SubSeq(seq, i + 1, Len(seq))

\* login(credentials) and register(userData) up to their await
SignIn(fn, account) ==
  /\ Len(auth.pending) < MaxPending
  /\ auth' = [auth EXCEPT !.isLoading = TRUE, !.error = "", !.last = fn,
                          !.pending = Append(@, [fn |-> fn, account |-> account, sent |-> ""])]
  /\ UNCHANGED <<tasks, req, resp, apiKey, cls, post, blogs, call, created, edit, list>>

\* handleOAuthCallback(token), which calls fetchUser
HandleOAuthCallback(token) ==
  /\ Len(auth.pending) < MaxPending
  /\ auth' = IF token = "" THEN [auth EXCEPT !.last = "handleOAuthCallback"]
             ELSE FetchUserCalled([auth EXCEPT !.stored = token, !.token = token,
                                               !.isAuthenticated = TRUE,
                                               !.last = "handleOAuthCallback"])
  /\ UNCHANGED <<tasks, req, resp, apiKey, cls, post, blogs, call, created, edit, list>>

\* fetchUser() called by a page
FetchUser ==
  /\ Len(auth.pending) < MaxPending
  /\ auth' = FetchUserCalled([auth EXCEPT !.last = "fetchUser"])
  /\ UNCHANGED <<tasks, req, resp, apiKey, cls, post, blogs, call, created, edit, list>>

\* logout()
Logout ==
  /\ auth' = LoggedOut([auth EXCEPT !.last = "logout"])
  /\ UNCHANGED <<tasks, req, resp, apiKey, cls, post, blogs, call, created, edit, list>>

\* the answer to the i-th call in flight arrives and the call runs to its end
AuthResponds(i, outcome) ==
  /\ i \in 1..Len(auth.pending)
  /\ outcome \in AuthOutcomes(auth.pending[i].fn)
  /\ LET c == auth.pending[i]
         a == [auth EXCEPT !.pending = Without(@, i), !.last = c.fn] IN
     auth' = IF c.fn = "fetchUser" THEN FetchUserReturned(a, c.sent, outcome)
             ELSE SignInReturned(a, c.fn, c.account, outcome)
  /\ UNCHANGED <<tasks, req, resp, apiKey, cls, post, blogs, call, created, edit, list>>

NextAuth ==
  \/ \E fn \in {"login", "register"} : \E account \in Accounts : SignIn(fn, account)
  \/ \E token \in {""} \cup {TokenOf(a) : a \in Accounts} : HandleOAuthCallback(token)
  \/ FetchUser
  \/ Logout
  \/ \E i \in 1..Len(auth.pending) : \E o \in {"ok", "401", "failed"} : AuthResponds(i, o)

SpecAuth == Init /\ [][NextAuth]_vars

(***************************************************************************)
(* Properties of makeCompletion (checked under SpecInvoker)                *)
(***************************************************************************)
\* completions the classifier is meant to flag, and provider failures that
\* carry no sign of moderation
RefusalTexts == {"I cannot help with that request.", "As an AI, I must decline."}
PlainTexts == {"", "A calm summary of the post.", "NSFW", LongFiller \o " harmful effects"}
NonModerationFailures ==
  {ProviderError("network timeout", ""), ProviderError("", ""), NoChoices}

IsRefusalCompletion(o) == \E t \in RefusalTexts : o = Completion(t)

ThrewModeration(mc) == mc.pc = "thrown" /\ mc.error = "ContentModerationError"
ThrewUnavailable(mc) ==
  mc.pc = "thrown" /\ mc.error = "Error" /\ mc.message = "AI service temporarily unavailable"

\* C1: an invocation of makeCompletion issues at most two provider calls, the
\* first with the primary model and the second, if any, with the fallback model
C1_AtMostTwoCalls ==
  \A k \in 1..Len(tasks) :
    LET mc == tasks[k].mc IN
    /\ Len(mc.calls) \in {1, 2}
    /\ mc.calls[1].model = mc.model
    /\ Len(mc.calls) = 2 => mc.calls[2].model = "llama-3.1-8b-instant"

C1_Witness ==
  \E k \in 1..Len(tasks) :
    /\ tasks[k].st # "pending"
    /\ Len(tasks[k].mc.calls) = 2
    /\ tasks[k].mc.model = "mixtral-8x7b-32768"
    /\ ThrewUnavailable(tasks[k].mc)

\* C2: when the primary call returns a completion that is a refusal,
\* makeCompletion raises ContentModerationError and has issued no further
\* provider call, whatever the primary model
C2_PrimaryRefusalShortCircuits ==
  \A k \in 1..Len(tasks) :
    (Len(tasks[k].settled) >= 1 /\ IsRefusalCompletion(tasks[k].settled[1]))
      => /\ ThrewModeration(tasks[k].mc)
         /\ Len(tasks[k].mc.calls) = 1
         /\ Len(tasks[k].settled) = 1

C2_Witness ==
  \E k \in 1..Len(tasks) :
    /\ tasks[k].mc.model = "llama-3.3-70b-versatile"
    /\ tasks[k].settled = << Completion("As an AI, I must decline.") >>
    /\ ThrewModeration(tasks[k].mc)

\* C3: when the primary call fails for a non-moderation reason and the primary
\* model is not the fallback model, exactly one more provider call is issued,
\* with the fallback model and the same prompts, temperature and token limit
C3_FallbackCallSamePrompts ==
  \A k \in 1..Len(tasks) :
    LET mc == tasks[k].mc IN
    (/\ Len(tasks[k].settled) >= 1
     /\ tasks[k].settled[1] \in NonModerationFailures
     /\ mc.model # "llama-3.1-8b-instant")
      => /\ Len(mc.calls) = 2
         /\ mc.calls[2].model = "llama-3.1-8b-instant"
         /\ mc.calls[2].messages = mc.calls[1].messages
         /\ mc.calls[2].messages[1] = [role |-> "system", content |-> mc.systemPrompt]
         /\ mc.calls[2].messages[2] = [role |-> "user", content |-> mc.userPrompt]
         /\ mc.calls[2].temperature = mc.calls[1].temperature
         /\ mc.calls[2].max_tokens = mc.calls[1].max_tokens

C3_Witness ==
  \E k \in 1..Len(tasks) :
    /\ tasks[k].settled = << NoChoices >>
    /\ tasks[k].mc.model = "mixtral-8x7b-32768"
    /\ tasks[k].mc.pc = "fallback"
    /\ Len(tasks[k].mc.calls) = 2

\* C4: when the primary model is the fallback model and the primary call fails
\* for a non-moderation reason, there is no retry: one provider call, and the
\* service-unavailable error is raised
C4_NoRetryOnFallbackModel ==
  \A k \in 1..Len(tasks) :
    (/\ Len(tasks[k].settled) >= 1
     /\ tasks[k].settled[1] \in NonModerationFailures
     /\ tasks[k].mc.model = "llama-3.1-8b-instant")
      => /\ Len(tasks[k].mc.calls) = 1
         /\ Len(tasks[k].settled) = 1
         /\ ThrewUnavailable(tasks[k].mc)

C4_Witness ==
  \E k \in 1..Len(tasks) :
    /\ tasks[k].mc.model = "llama-3.1-8b-instant"
    /\ tasks[k].settled = << ProviderError("network timeout", "") >>
    /\ ThrewUnavailable(tasks[k].mc)

\* C5: the outcome of the fallback call is classified like the primary's: a
\* refusal completion raises ContentModerationError, a non-moderation failure
\* raises the service-unavailable error, any other completion is returned
C5_FallbackOutcomeClassified ==
  \A k \in 1..Len(tasks) :
    LET mc == tasks[k].mc
        o  == tasks[k].settled[2]
    IN Len(tasks[k].settled) = 2
         => /\ IsRefusalCompletion(o) => ThrewModeration(mc)
            /\ o \in NonModerationFailures => ThrewUnavailable(mc)
            /\ (\E t \in PlainTexts : o = Completion(t))
                 => mc.pc = "returned" /\ mc.value = o.content
            /\ o = EmptyChoices => mc.pc = "returned" /\ mc.value = ""

C5_Witness ==
  \E k \in 1..Len(tasks) :
    /\ Len(tasks[k].settled) = 2
    /\ tasks[k].settled[1] \in NonModerationFailures
    /\ IsRefusalCompletion(tasks[k].settled[2])
    /\ ThrewModeration(tasks[k].mc)

\* C6 as claimed: every invocation that ends by raising ContentModerationError
\* has issued exactly one provider call
C6_Claimed ==
  \A k \in 1..Len(tasks) :
    ThrewModeration(tasks[k].mc) => Len(tasks[k].mc.calls) = 1

\* C6 as amended: an invocation that ends by raising ContentModerationError has
\* issued exactly one provider call, unless the refusal was found in the
\* completion of the fallback call made after a non-moderation failure of the
\* primary call, and then it has issued exactly two
C6_ModerationCallCount ==
  \A k \in 1..Len(tasks) :
    ThrewModeration(tasks[k].mc)
      => \/ Len(tasks[k].mc.calls) = 1 /\ Len(tasks[k].settled) = 1
         \/ /\ Len(tasks[k].mc.calls) = 2 /\ Len(tasks[k].settled) = 2
            /\ tasks[k].settled[1] \in NonModerationFailures
            /\ IsRefusalCompletion(tasks[k].settled[2])

C6_Witness ==
  \E k \in 1..Len(tasks) :
    /\ ThrewModeration(tasks[k].mc)
    /\ tasks[k].mc.message = FILTER_MESSAGE
    /\ Len(tasks[k].mc.calls) = 1

(***************************************************************************)
(* Properties of isContentRefusal (checked under SpecClassifier)           *)
(***************************************************************************)
\* the phrase of the classified text lies wholly within the first 200 characters
PhraseInWindow == cls.offset + Len(cls.phrase) <= 200

\* C7 as claimed: a completion whose first 200 characters contain a fixed
\* refusal phrase, in any letter case, is reported as a refusal whatever its
\* total length and whatever follows the phrase
C7_Claimed ==
  (cls.ran /\ cls.phrase \in FixedPhrases /\ PhraseInWindow) => cls.verdict

\* C7 as amended: a completion of at least 10 characters whose first 200
\* characters contain a fixed refusal phrase, in any letter case, is reported
\* as a refusal whatever follows the phrase
C7_PhraseInWindowIsRefusal ==
  (cls.ran /\ cls.phrase \in FixedPhrases /\ PhraseInWindow /\ Len(cls.text) >= 10)
    => cls.verdict

C7_Witness ==
  /\ cls.ran /\ cls.verdict
  /\ cls.phrase = "explicit" /\ cls.mode = "upper"
  /\ cls.offset = 192 /\ cls.tail = 1

\* C8: a completion whose first 200 characters match no refusal pattern is not
\* reported as a refusal, also when a refusal word lies after character 200 or
\* starts before position 200 and ends after it
C8_NoMatchInWindowIsNoRefusal ==
  (cls.ran /\ (cls.phrase \in OtherPhrases \/ ~PhraseInWindow)) => ~cls.verdict

C8_Witness ==
  /\ cls.ran /\ ~cls.verdict
  /\ cls.phrase = "harmful"
  /\ cls.offset < 200 /\ cls.offset + 7 > 200
  /\ Len(cls.text) > 200

(***************************************************************************)
(* Properties of the /ai routes and of generateTags (checked under Spec)   *)
(***************************************************************************)
\* C9 as claimed: on each of the ten POST routes, when a completion of the
\* request is a moderation refusal, the response is 422 with success false and
\* code CONTENT_MODERATED
C9_Claimed ==
  (/\ resp # NoResp
   /\ AllSettled(tasks)
   /\ \E k \in 1..Len(tasks) : \E j \in 1..Len(tasks[k].settled) :
        IsRefusalCompletion(tasks[k].settled[j]))
    => /\ resp.status = 422
       /\ Field(resp.body, "success") = JBool(FALSE)
       /\ Field(resp.body, "code") = JStr("CONTENT_MODERATED")

\* the arrays of strings written as a bracketed span in the array completions
SpanArray(t) ==
  CASE t = "Here are tags: [\"react\", \"Node.js\", \"Web-Dev\"]" -> <<"react", "Node.js", "Web-Dev">>
    [] t = "[\" Go \", \"RUST\"]" -> <<" Go ", "RUST">>
    [] t = "[]" -> <<>>
    [] t = "[\"harmful\", \"x\"]" -> <<"harmful", "x">>
    [] t = "[\"nsfw\"]" -> <<"nsfw">>
    [] t = "[1] tags: [\"a\"]" -> <<"a">>
    [] t = "[\"a\"\n, \"b\"] done" -> <<"a", "b">>

\* the same arrays, lower-cased and trimmed
SpanTags(t) ==
  CASE t = "Here are tags: [\"react\", \"Node.js\", \"Web-Dev\"]" -> <<"react", "node.js", "web-dev">>
    [] t = "[\" Go \", \"RUST\"]" -> <<"go", "rust">>
    [] OTHER -> SpanArray(t)

WithStringSpan ==
  { "Here are tags: [\"react\", \"Node.js\", \"Web-Dev\"]", "[\" Go \", \"RUST\"]", "[]",
    "[\"harmful\", \"x\"]", "[\"nsfw\"]", "[1] tags: [\"a\"]", "[\"a\"\n, \"b\"] done" }

\* of these, the completions that are no refusal and whose span from the first
\* "[" to the last "]" is the array
WithGreedyStringSpan == WithStringSpan \ {"[\"harmful\", \"x\"]", "[1] tags: [\"a\"]"}

FirstTags(t, maxTags) ==
  JArr([i \in 1..Min(maxTags, Len(SpanTags(t))) |-> JStr(SpanTags(t)[i])])

\* the completion generateTags got from makeCompletion
TagsCompletion(task) == task.settled[Len(task.settled)].content

TagsCase(task, texts) ==
  /\ task.op = "generateTags" /\ task.st = "fulfilled"
  /\ task.mc.pc # "primary"
  /\ task.settled[Len(task.settled)].kind = "completion"
  /\ TagsCompletion(task) \in texts
  /\ task.num >= 0

\* C10 as claimed: when the completion contains a bracketed span that parses as
\* a JSON array of strings and maxTags is a non-negative integer, generateTags
\* returns the first min(maxTags, n) elements, lower-cased and trimmed, in order
C10_Claimed ==
  \A k \in 1..Len(tasks) :
    TagsCase(tasks[k], WithStringSpan)
      => tasks[k].result = FirstTags(TagsCompletion(tasks[k]), tasks[k].num)

\* C10 as amended: when the completion is not classified as a refusal, its span
\* from the first "[" to the last "]" parses as a JSON array of strings and
\* maxTags is a non-negative integer, generateTags returns the first
\* min(maxTags, n) elements, lower-cased and trimmed, in order
C10_TagsFromGreedySpan ==
  \A k \in 1..Len(tasks) :
    TagsCase(tasks[k], WithGreedyStringSpan)
      => tasks[k].result = FirstTags(TagsCompletion(tasks[k]), tasks[k].num)

C10_Witness ==
  \E k \in 1..Len(tasks) :
    /\ tasks[k].op = "generateTags" /\ tasks[k].st = "fulfilled"
    /\ tasks[k].num = 2
    /\ tasks[k].settled = << Completion("Here are tags: [\"react\", \"Node.js\", \"Web-Dev\"]") >>
    /\ tasks[k].result = JArr(<< JStr("react"), JStr("node.js") >>)

(***************************************************************************)
(* Properties of the operations' extraction (checked under Spec)           *)
(***************************************************************************)
ArrayOps == {"generateTags", "generateTitles"}

\* completions with no "[" followed by a "]", completions whose span from the
\* first "[" to the last "]" is no JSON, and the completion whose array holds
\* a number after a string
NoBracketSpan == {"", "tags: react, node", "A calm summary of the post.", "NSFW"}
BrokenBracketSpan == {"[a, b]", "[1] tags: [\"a\"]"}
NumberInArray == "[\"a\", 1]"

\* the operation got text back from makeCompletion
GotCompletion(task, texts) ==
  /\ task.mc.pc = "returned"
  /\ task.st # "pending"
  /\ task.mc.value \in texts

\* C11 as claimed: generateTags and generateTitles never raise on a structural
\* failure: when the completion has no bracketed span, or the span from the
\* first "[" to the last "]" is not valid JSON, or (for tags) an element of the
\* array is not a string, the operation returns the empty array
C11_Claimed ==
  \A k \in 1..Len(tasks) :
    tasks[k].op \in ArrayOps =>
      /\ tasks[k].st # "rejected"
      /\ GotCompletion(tasks[k], NoBracketSpan \cup BrokenBracketSpan)
           => tasks[k].result = JArr(<<>>)
      /\ (tasks[k].op = "generateTags" /\ GotCompletion(tasks[k], {NumberInArray}))
           => tasks[k].result = JArr(<<>>)

\* C11 as amended: generateTags and generateTitles never raise on a structural
\* failure: when the completion has no bracketed span, or the span from the
\* first "[" to the last "]" is not valid JSON, or (for tags) one of the
\* elements kept by the truncation to maxTags is not a string, the operation
\* returns the empty array
C11_StructuralFailureGivesEmptyArray ==
  \A k \in 1..Len(tasks) :
    tasks[k].op \in ArrayOps =>
      /\ tasks[k].st # "rejected"
      /\ GotCompletion(tasks[k], NoBracketSpan \cup BrokenBracketSpan)
           => tasks[k].result = JArr(<<>>)
      /\ (/\ tasks[k].op = "generateTags"
          /\ GotCompletion(tasks[k], {NumberInArray})
          /\ tasks[k].num >= 2)
           => tasks[k].result = JArr(<<>>)

C11_Witness ==
  \E k \in 1..Len(tasks) :
    /\ tasks[k].op = "generateTags" /\ tasks[k].st = "fulfilled"
    /\ tasks[k].num = 2
    /\ tasks[k].settled = << Completion(NumberInArray) >>
    /\ tasks[k].result = JArr(<<>>)

\* completions with no "{" followed by a "}", and the completion whose span
\* from the first "{" to the last "}" is no JSON
NoBraceSpan == {"", "A calm summary of the post.", "NSFW"}
BrokenBraceSpan == {"{not json}"}

\* C12: when the completion contains no "{" ... "}" span or the span is not
\* valid JSON, improveText(text) returns {improved: text, changes: []} and
\* grammarCheck(text) returns {corrected: text, errors: []}, text being the
\* caller's input unchanged
C12_ObjectOpsEchoTheInput ==
  \A k \in 1..Len(tasks) :
    GotCompletion(tasks[k], NoBraceSpan \cup BrokenBraceSpan) =>
      /\ tasks[k].op = "improveText" =>
           /\ tasks[k].st = "fulfilled"
           /\ tasks[k].result =
                JObj(<< <<"improved", JStr(req.text)>>, <<"changes", JArr(<<>>)>> >>)
      /\ tasks[k].op = "grammarCheck" =>
           /\ tasks[k].st = "fulfilled"
           /\ tasks[k].result =
                JObj(<< <<"corrected", JStr(req.text)>>, <<"errors", JArr(<<>>)>> >>)

C12_Witness ==
  /\ req.route = "grammar" /\ req.text = Text60
  /\ Len(tasks) = 1
  /\ tasks[1].settled = << Completion("{not json}") >>
  /\ tasks[1].result = JObj(<< <<"corrected", JStr(Text60)>>, <<"errors", JArr(<<>>)>> >>)

\* the closed set of category names
CategoryNames ==
  { "Technology", "Programming", "Web Development", "Mobile Development",
    "Data Science", "AI/Machine Learning", "DevOps", "Cybersecurity",
    "Business", "Marketing", "Design", "Lifestyle", "Travel", "Food",
    "Health", "Education", "Finance", "Entertainment", "Sports", "Other" }

\* the name a completion stands for, "Other" when it stands for none
NameFor(text) ==
  CASE text = "  web development  " -> "Web Development"
    [] text = "DevOps" -> "DevOps"
    [] OTHER -> "Other"

\* C13: getCategory always returns a member of the closed set of 20 category
\* names: the trimmed completion is matched case-insensitively and the
\* canonical spelling is returned; on no match, and on any provider failure,
\* the result is "Other"
C13_CategoryInClosedSet ==
  \A k \in 1..Len(tasks) :
    (tasks[k].op = "getCategory" /\ tasks[k].st # "pending") =>
      /\ Cardinality(CategoryNames) = 20
      /\ tasks[k].st = "fulfilled"
      /\ \E c \in CategoryNames : tasks[k].result = JStr(c)
      /\ tasks[k].mc.pc = "returned" => tasks[k].result = JStr(NameFor(tasks[k].mc.value))
      /\ tasks[k].mc.pc = "thrown" => tasks[k].result = JStr("Other")

C13_Witness ==
  /\ req.route = "category"
  /\ Len(tasks) = 1
  /\ tasks[1].settled = << Completion("  web development  ") >>
  /\ tasks[1].result = JStr("Web Development")

(***************************************************************************)
(* Properties of the routes (checked under Spec)                           *)
(***************************************************************************)
AnalysisFields == {"tags", "summary", "category", "titles"}

\* the names of the members of an object
KeysOf(obj) == {obj.items[i][1] : i \in 1..Len(obj.items)}

SMALLEST_CONTENT_LIMIT == Min(Min(TAGS_CONTENT_LIMIT, SUMMARY_CONTENT_LIMIT),
                              Min(TITLES_CONTENT_LIMIT, CATEGORY_CONTENT_LIMIT))
LARGEST_CONTENT_LIMIT == Max(Max(TAGS_CONTENT_LIMIT, SUMMARY_CONTENT_LIMIT),
                             Max(TITLES_CONTENT_LIMIT, CATEGORY_CONTENT_LIMIT))

\* C15 as claimed: for every operation the caller's content is embedded
\* verbatim in the user prompt when it is under the operation's limit, and the
\* user prompt never carries more than 4,000 characters of caller content
C15_Claimed ==
  \A k \in 1..Len(tasks) :
    tasks[k].op \in Operations =>
      /\ Len(req.text) <= SMALLEST_CONTENT_LIMIT
           => Includes(tasks[k].mc.userPrompt, req.text)
      /\ Len(req.text) > LARGEST_CONTENT_LIMIT
           => ~Includes(tasks[k].mc.userPrompt,
                        Substring0(req.text, LARGEST_CONTENT_LIMIT + 1))

\* the ten operation names of the /ai router
SupportedOperations ==
  << JStr("tags"), JStr("summary"), JStr("titles"), JStr("expand"), JStr("improve"),
     JStr("tone"), JStr("continue"), JStr("grammar"), JStr("category"), JStr("analyze") >>

\* C17 as claimed: GET /ai/status answers with available=true when the API key
\* is set and with available=false when it is not, and in both cases lists the
\* ten supported operation names
C17_Claimed ==
  req.route = "status" =>
    /\ resp.status = 200
    /\ Field(resp.body, "available") = JBool(apiKey)
    /\ Field(resp.body, "features") = JArr(SupportedOperations)

\* the provider calls issued so far
RECURSIVE CallsOf(_)
CallsOf(ts) == IF ts = <<>> THEN 0 ELSE Len(ts[1].mc.calls) + CallsOf(Tail(ts))

\* C18: no provider call is ever issued while the API key is absent: every /ai
\* route answers 503 before invoking any operation and blog creation skips the
\* AI step, so with the key unset the count of provider calls stays what it was
C18_NoCallWithoutKey ==
  ~apiKey =>
    /\ CallsOf(tasks) = 0
    /\ tasks = <<>>
    /\ req.route # "none" =>
         /\ resp.status = 503
         /\ Field(resp.body, "success") = JBool(FALSE)
    /\ post.arrived =>
         /\ resp.status \in {201, 400}
         /\ resp.status = 201 => Len(blogs) = 1

C18_Witness ==
  /\ ~apiKey
  /\ post.arrived /\ post.content = Text120 /\ ~post.autoTagGiven /\ ~post.tagsGiven
  /\ CallsOf(tasks) = 0
  /\ resp.status = 201

(***************************************************************************)
(* Properties of blog creation (checked under Spec)                        *)
(***************************************************************************)
\* a body that passes the handler's validation and the model's
ValidPost(p) ==
  /\ p.arrived
  /\ \E i \in 1..Len(p.content) : CharAt(p.content, i) \notin WhiteSpace
  /\ Len(p.content) <= CONTENT_MAX
  /\ Len(p.template) <= TEMPLATE_MAX

\* the AI step is over: it was skipped, one of its operations rejected, or all fulfilled
AIStepOver ==
  \/ tasks = <<>>
  \/ \E k \in 1..Len(tasks) : tasks[k].st = "rejected"
  \/ \A k \in 1..Len(tasks) : tasks[k].st = "fulfilled"

\* C19: AI failures never block saving a blog: for a POST /blogs with valid
\* input, whatever the outcome of the AI sub-calls, the blog record is still
\* created and the response is 201
C19_BlogSavedWhateverAIDoes ==
  ValidPost(post) =>
    /\ resp # NoResp => resp.status = 201
    /\ AIStepOver =>
         /\ resp.status = 201
         /\ Len(blogs) = 1

C19_Witness ==
  /\ ValidPost(post)
  /\ \E k \in 1..Len(tasks) :
       /\ tasks[k].st = "rejected"
       /\ tasks[k].error = "ContentModerationError"
  /\ resp.status = 201
  /\ Len(blogs) = 1

\* C20 as claimed: POST /ai/tags returns at most 10 tags and never more than
\* the requested maxTags: for every request value of maxTags (zero and
\* negative values included) and every completion, the tags array of the
\* response has length at most min(maxTags, 10)
C20_Claimed ==
  (req.route = "tags" /\ resp.status = 200) =>
    /\ Len(Field(resp.body, "tags").items) <= TAGS_MAX
    /\ Len(Field(resp.body, "tags").items) <= Min(NumOr(req, DEFAULT_MAX_TAGS), TAGS_MAX)

(***************************************************************************)
(* Properties of the prompt construction (checked under SpecOperations)    *)
(***************************************************************************)
\* the prompts were built and handed to the provider, missing optional
\* parameters replaced by maxTags=5, length='short', tone='professional'
PromptsBuilt(c, task) ==
  /\ task.error # "TypeError"
  /\ Len(task.mc.calls) >= 1
  /\ task.mc.calls[1].messages[1].content = task.mc.systemPrompt
  /\ (c.op = "generateTags" /\ ~c.numGiven)
       => Includes(task.mc.systemPrompt, "Maximum 5 tags")
  /\ (c.op = "generateSummary" /\ ~c.optGiven)
       => /\ Includes(task.mc.systemPrompt, "Create a short summary")
          /\ Includes(task.mc.systemPrompt, "Length: 1-2 sentences, under 50 words")
  /\ (c.op = "expandText" /\ ~c.optGiven)
       => Includes(task.mc.systemPrompt, "Use a professional tone")

\* C16 as claimed: building the prompt pair never throws: for any operation
\* and any caller input (content that is missing or not a string, missing or
\* unknown optional parameters), prompt construction completes, with missing
\* optional parameters replaced by maxTags=5, length='short', tone='professional'
C16_Claimed ==
  call.op # "none" => PromptsBuilt(call, tasks[1])

\* C16 as amended: building the prompt pair never throws when the content is
\* a string: for any operation and missing or unknown optional parameters,
\* prompt construction completes, with missing optional parameters replaced by
\* maxTags=5, length='short', tone='professional'; content that is missing or
\* not a string makes generateTags, generateSummary, generateTitles and
\* getCategory reject with a TypeError before any provider call
C16_PromptsBuiltForStringContent ==
  call.op # "none" =>
    IF call.content.t = "str"
    THEN PromptsBuilt(call, tasks[1])
    ELSE /\ call.op \in {"generateTags", "generateSummary", "generateTitles", "getCategory"}
         /\ tasks[1].st = "rejected"
         /\ tasks[1].error = "TypeError"
         /\ tasks[1].mc.calls = <<>>

C16_Witness ==
  /\ call.op = "generateSummary" /\ call.content = JStr("Short note.")
  /\ ~call.optGiven
  /\ Len(tasks[1].mc.calls) = 1
  /\ Includes(tasks[1].mc.calls[1].messages[1].content, "Create a short summary")
  /\ tasks[1].st = "fulfilled"

\* C23 as claimed: whenever improveText returns, its result is an object with
\* an 'improved' string and a 'changes' list, and whenever grammarCheck
\* returns, its result has a 'corrected' string and an 'errors' list, for every
\* completion the provider can produce
C23_Claimed ==
  \A k \in 1..Len(tasks) :
    tasks[k].st = "fulfilled" =>
      /\ tasks[k].op = "improveText" =>
           /\ tasks[k].result.t = "obj"
           /\ Field(tasks[k].result, "improved").t = "str"
           /\ Field(tasks[k].result, "changes").t = "arr"
      /\ tasks[k].op = "grammarCheck" =>
           /\ tasks[k].result.t = "obj"
           /\ Field(tasks[k].result, "corrected").t = "str"
           /\ Field(tasks[k].result, "errors").t = "arr"

\* a provider call of the request is still in flight
InFlight == \E k \in 1..Len(tasks) : tasks[k].st = "pending"

FilterErrors ==
  { ProviderError("blocked: content_filter", ""),
    ProviderError("flagged by moderation", ""),
    ProviderError("bad request", "content_policy_violation") }

\* C27 as claimed: a provider error that signals content filtering is reported
\* as ContentModerationError on whichever attempt it occurs: on the primary
\* attempt without any fallback call, and equally on the fallback attempt,
\* never as the service-unavailable error
C27_Claimed ==
  \A k \in 1..Len(tasks) :
    LET n == Len(tasks[k].settled) IN
    (n >= 1 /\ tasks[k].settled[n] \in FilterErrors) =>
      /\ ThrewModeration(tasks[k].mc)
      /\ ~ThrewUnavailable(tasks[k].mc)
      /\ Len(tasks[k].mc.calls) = n

QualityOps == {"expandText", "improveText", "continueWriting"}

\* C28: the fallback model is distinct from the primary only for expansion,
\* improvement and continuation; every operation whose primary is the fast
\* model issues exactly one provider call per invocation whatever the outcome,
\* so one /analyze request issues exactly four provider calls
C28_FastOpsCallOnce ==
  /\ \A k \in 1..Len(tasks) :
       /\ tasks[k].mc.model # "llama-3.1-8b-instant" <=> tasks[k].op \in QualityOps
       /\ tasks[k].op \notin QualityOps =>
            /\ Len(tasks[k].mc.calls) = 1
            /\ tasks[k].st # "pending" => Len(tasks[k].settled) = 1
  /\ (req.route = "analyze" /\ tasks # <<>>) => CallsOf(tasks) = 4

C28_Witness ==
  /\ req.route = "analyze"
  /\ Len(tasks) = 4
  /\ \A k \in 1..Len(tasks) : tasks[k].st # "pending"
  /\ tasks[1].settled = << ProviderError("network timeout", "") >>
  /\ tasks[2].st = "rejected"
  /\ CallsOf(tasks) = 4

\* makeCompletion has been entered; it has returned or thrown
Invoked == Len(tasks) = 1 /\ tasks[1].op = "makeCompletion"
Ended ==
  /\ Invoked
  /\ \/ tasks[1].mc.pc = "returned"
     \/ ThrewModeration(tasks[1].mc)
     \/ ThrewUnavailable(tasks[1].mc)

\* C29: every invocation of makeCompletion terminates: provided each provider
\* call eventually resolves or rejects, the invocation eventually returns a
\* completion, raises ContentModerationError or raises the service-unavailable
\* error, and it never starts a third provider call
C29_MakeCompletionTerminates ==
  /\ [](Invoked => Len(tasks[1].mc.calls) <= 2)
  /\ Invoked ~> Ended

C29_Witness ==
  /\ Ended
  /\ ThrewUnavailable(tasks[1].mc)
  /\ Len(tasks[1].mc.calls) = 2
  /\ Len(tasks[1].settled) = 2

(***************************************************************************)
(* Properties of the values handed to Blog.create (checked under Spec)     *)
(***************************************************************************)
\* the activation of operation op among the sub-calls of the request
TaskOf(op) == tasks[CHOOSE k \in 1..Len(tasks) : tasks[k].op = op]

Runs(op) == \E k \in 1..Len(tasks) : tasks[k].op = op

AllSubCallsCompleted ==
  /\ tasks # <<>>
  /\ \A k \in 1..Len(tasks) : tasks[k].st = "fulfilled"

SignedOutState(a) == a.user = "" /\ a.token = "" /\ ~a.isAuthenticated

\* C30 as claimed: once logout has run the state stays user = null, token =
\* null, isAuthenticated = false until the next login, register or
\* handleOAuthCallback, also when a fetchUser started before the logout gets
\* its response after it
C30_Claimed ==
  [][(SignedOutState(auth)
      /\ auth'.last \notin {"login", "register", "handleOAuthCallback"})
     => SignedOutState(auth')]_vars

\* the store right after the late response: signed in again without a token
C30_Resurrected ==
  /\ auth.last = "fetchUser"
  /\ auth.user # "" /\ auth.isAuthenticated
  /\ auth.token = "" /\ auth.stored = ""

(***************************************************************************)
(* Properties of the blog routes (checked under SpecListing and SpecBlogs) *)
(***************************************************************************)
\* C22 as claimed: blog listing pagination is bounded: for every value of the
\* page and limit query parameters (missing, zero, negative, non-numeric, or
\* larger than 50), GET /blogs queries with a page size between 1 and 50 and a
\* non-negative offset, and reports hasPrevPage = (page > 1) and
\* hasNextPage = (page < totalPages)
C22_Claimed ==
  list.asked =>
    /\ list.limit \in 1..50
    /\ list.offset >= 0
    /\ list.hasPrevPage = (list.currentPage > 1)
    /\ list.hasNextPage = (list.currentPage < list.totalPages)

\* a row of the table before the step, by its id
RowBefore(id) == blogs[FindByPk(blogs, id)]

\* the row with this id is changed or removed by the step
Touched(id) ==
  \/ FindByPk(blogs', id) = 0
  \/ blogs'[FindByPk(blogs', id)] # RowBefore(id)

\* a step touches a row only when it is a PUT or DELETE for that id sent by
\* the row's author
OnlyAuthorTouches ==
  \A k \in 1..Len(blogs) :
    Touched(blogs[k].id) =>
      /\ edit'.method \in {"PUT", "DELETE"}
      /\ edit'.id = blogs[k].id
      /\ edit'.user = blogs[k].authorId

\* a PUT or DELETE for an existing row sent by another user is answered 401
\* and leaves the table as it was
OthersRefused ==
  \A k \in 1..Len(blogs) :
    (edit'.method \in {"PUT", "DELETE"}
     /\ edit'.id = blogs[k].id /\ edit'.user # blogs[k].authorId) =>
      (resp'.status = 401 /\ blogs' = blogs)

\* C21: only a blog's author can change or remove it: in every step of a
\* sequence of PUT and DELETE /blogs/:id requests, a blog's stored fields
\* differ from their previous values, or the blog is gone, only if the
\* request of the step was sent by the user whose id equals the blog's
\* authorId; a request by any other authenticated user for an existing blog
\* gets 401 and leaves the table unchanged
C21_OnlyAuthorChanges == [][OnlyAuthorTouches /\ OthersRefused]_vars

\* the other user's PUT and DELETE were refused and the blog is as created
C21_Witness ==
  /\ Len(blogs) = 1
  /\ edit.method = "DELETE" /\ edit.id = blogs[1].id /\ edit.user # blogs[1].authorId
  /\ resp.status = 401
  /\ blogs[1].content = "Short note."

====
